---- MODULE Spec2Model ----
(***************************************************************************)
(* Model of the dryve D1 protocol stack: ModbusTcpTransport                *)
(* (src/transport.py), the telegram builder/parser (src/packet.py) and the *)
(* SDO client DryveSDO (src/protocol.py and src/igusd1/protocol.py).       *)
(*                                                                         *)
(* Threads are numbered: 0 is the application thread, 1..MaxHeartbeats are *)
(* heartbeat threads created by start_heartbeat().  The peer (device) and  *)
(* the TCP connection are the environment: requests sent on the current    *)
(* socket queue up in srvq, the bytes the peer has answered wait in rxbuf. *)
(*                                                                         *)
(* Further specifications study one layer each, with the stack left as     *)
(* constructed: SpecRequest (access checks and request PDUs), SpecParse    *)
(* (parse_response), SpecDecode (parse_drive_state, src/state_bits.py),    *)
(* SpecMachine (DriveStateMachine, src/machine.py), SpecCodec (pack_value  *)
(* and unpack_value, src/codec.py), SpecTelegram (one read from request to *)
(* decoded value), SpecMotor (IgusMotor, src/igus_motor.py), SpecTid (the   *)
(* transaction-id counter), SpecOd (every entry of OD_MAP, src/od.py),     *)
(* SpecBuilder (the builder on entries of any access type) and SpecWait    *)
(* (DryveController.wait_motion_complete, src/controller.py).  SpecLive is *)
(* the stack under fair scheduling of its threads.                         *)
(***************************************************************************)
EXTENDS Integers, Sequences, FiniteSets, TLC

\* ------------------------------------------------------------------ bounds
MaxHeartbeats == 2
MaxBeats == 1
MaxCalls == 1
MaxMotorCalls == 2

\* ------------------------------------------------------- program constants
max_retries == 3
max_attempts == 3
TidModulus == 65536
unit_id == 0

App == 0
NoThread == 0 - 1
HBThreads == 1..MaxHeartbeats
Threads == {App} \cup HBThreads

\* ------------------------------------------------------------- byte helpers
U16BE(x) == << (x \div 256) % 256, x % 256 >>

U16LE(x) == << x % 256, (x \div 256) % 256 >>

\* struct.pack(">HHHB", tid, proto, length, unit)
PackMBAP(tid, proto, length, unit) ==
    U16BE(tid) \o U16BE(proto) \o U16BE(length) \o << unit >>

\* struct.unpack(">HHHB", b) of a 7-byte header
UnpackMBAP(b) ==
    [ tid |-> b[1] * 256 + b[2],
      proto |-> b[3] * 256 + b[4],
      length |-> b[5] * 256 + b[6],
      unit |-> b[7] ]

Drop(s, n) == SubSeq(s, n + 1, Len(s))

Take(s, n) == SubSeq(s, 1, n)

\* ------------------------------------------------------- object dictionary
\* class AccessType
AccessType == { "ro", "rw", "wo", "const" }

\* The entries of OD_MAP the modelled callers use.
OD_MAP ==
    [ controlword |-> [ index |-> 24640, subindex |-> 0, length |-> 2,
                        access |-> "rw", dtype |-> "uint16", scale |-> 1 ],
      statusword |-> [ index |-> 24641, subindex |-> 0, length |-> 2,
                       access |-> "ro", dtype |-> "uint16", scale |-> 1 ],
      mode_of_operation |-> [ index |-> 24672, subindex |-> 0, length |-> 1,
                              access |-> "rw", dtype |-> "int8",
                              scale |-> 1 ],
      profile_velocity |-> [ index |-> 24705, subindex |-> 0, length |-> 4,
                             access |-> "rw", dtype |-> "uint32",
                             scale |-> 1 ] ]

ODKeys == DOMAIN OD_MAP

\* ------------------------------------------------------------------- codec
\* the struct formats of the integer members of DataType: size in bytes and
\* the range struct.pack accepts.  The model's integers end at 2^31 - 1, which
\* stands for the upper end of uint32 as well.
IntFormat ==
    [ uint8 |-> [ size |-> 1, lo |-> 0, hi |-> 255 ],
      int8 |-> [ size |-> 1, lo |-> 0 - 128, hi |-> 127 ],
      uint16 |-> [ size |-> 2, lo |-> 0, hi |-> 65535 ],
      int16 |-> [ size |-> 2, lo |-> 0 - 32768, hi |-> 32767 ],
      uint32 |-> [ size |-> 4, lo |-> 0, hi |-> 2147483647 ],
      int32 |-> [ size |-> 4, lo |-> 0 - 2147483647, hi |-> 2147483647 ] ]

\* what pack_value and the builder give instead of bytes when they raise
StructError == << 0 - 1 >>

CodecError == << 0 - 2 >>

\* the n low bytes of x, least significant first (two's complement for a
\* negative x: \div and % round towards minus infinity)
BytesLE(x, n) == [ i \in 1..n |-> IF i = 1 THEN x % 256
                                  ELSE IF i = 2 THEN (x \div 256) % 256
                                  ELSE IF i = 3 THEN (x \div 65536) % 256
                                  ELSE (x \div 16777216) % 256 ]

\* pack_value for the integer types: struct.pack("<B" .. "<i") raises
\* struct.error for a value outside the range of the format
pack_value(value, dtype, scale) ==
    LET scaled_val == IF scale # 1 THEN value * scale ELSE value
    IN IF dtype \notin DOMAIN IntFormat THEN CodecError
       ELSE LET f == IntFormat[dtype]
            IN IF scaled_val < f.lo \/ scaled_val > f.hi THEN StructError
               ELSE BytesLE(scaled_val, f.size)

\* 256 to the power i - 1, the weight of byte i of a little-endian integer
ByteWeight(i) == IF i = 1 THEN 1 ELSE IF i = 2 THEN 256
                 ELSE IF i = 3 THEN 65536 ELSE 16777216

\* struct.unpack("<B" .. "<i", data) raises struct.error unless data has
\* exactly the width of the format; an unknown dtype raises CodecError
UnpackRaises(data, dtype) ==
    IF dtype \notin DOMAIN IntFormat THEN "CodecError"
    ELSE IF Len(data) # IntFormat[dtype].size THEN "struct.error"
    ELSE "none"

UnpackIntUnsigned(data, signed) ==
    LET n == Len(data)
        low == IF n = 1 THEN 0
               ELSE IF n = 2 THEN data[1]
               ELSE IF n = 3 THEN data[1] + 256 * data[2]
               ELSE data[1] + 256 * data[2] + 65536 * data[3]
    IN low + data[n] * ByteWeight(n)

\* struct.unpack of n = Len(data) little-endian bytes: the top byte of a
\* signed format counts from -128
UnpackInt(data, signed) ==
    LET n == Len(data)
        low == IF n = 1 THEN 0
               ELSE IF n = 2 THEN data[1]
               ELSE IF n = 3 THEN data[1] + 256 * data[2]
               ELSE data[1] + 256 * data[2] + 65536 * data[3]
        top == IF signed /\ data[n] >= 128 THEN data[n] - 256 ELSE data[n]
    IN low + top * ByteWeight(n)

\* unpack_value for the integer types; None stands for no value (the call
\* raised UnpackRaises).  val / scale is true division: the quotient when it
\* is exact, and otherwise the fraction, written << val, scale >>.
unpack_value(data, dtype, scale) ==
    IF UnpackRaises(data, dtype) # "none" THEN 0 - 1
    ELSE LET val == UnpackInt(data, IntFormat[dtype].lo < 0)
         IN IF scale # 1
            THEN IF val % scale = 0 THEN val \div scale ELSE << val, scale >>
            ELSE val

\* ------------------------------------------------------------ packet builder
\* the PDU build_read_request makes for the entry obj
ReadRequestPdu(obj) ==
    << 43, 13, 0, 0, 0,
       (obj.index \div 256) % 256, obj.index % 256, obj.subindex,
       0, 0, 0, obj.length >>

WriteRequestPduBigEndian(obj, value) ==
    LET packed_data == pack_value(value, obj.dtype, obj.scale)
    IN << 43, 13, 1, 0, 0,
          (obj.index \div 256) % 256, obj.index % 256, obj.subindex,
          0, 0, 0, obj.length >>
       \o [ i \in 1..Len(packed_data) |->
              packed_data[Len(packed_data) + 1 - i] ]

\* the PDU build_write_request makes for the entry obj: header + packed_data
WriteRequestPdu(obj, value) ==
    LET packed_data == pack_value(value, obj.dtype, obj.scale)
    IN << 43, 13, 1, 0, 0,
          (obj.index \div 256) % 256, obj.index % 256, obj.subindex,
          0, 0, 0, obj.length >> \o packed_data

build_read_request(od_key) == ReadRequestPdu(OD_MAP[od_key])

build_write_request(od_key, value) == WriteRequestPdu(OD_MAP[od_key], value)

\* ------------------------------------------------------------- packet parser
None == 0 - 1

\* ModbusPacketParser.parse_response: the error it raises ("none" when it
\* returns) and the payload it returns.  For a function byte with the high
\* bit set it reads the exception code payload[1] and raises nothing.
parse_response(response, expected_tid, expected_index, expected_subindex, expected_length) ==
    LET raise(e, m) == [ err |-> e, msg |-> m, payload |-> << >> ]
    IN
    IF Len(response) < 9 THEN raise("ModbusException", "Response too short")
    ELSE
    LET hdr == UnpackMBAP(Take(response, 7))
        payload == Drop(response, 7)
    IN  IF hdr.proto # 0
        THEN raise("ModbusException", "Protocol ID mismatch")
        ELSE IF hdr.tid # expected_tid
        THEN raise("TransactionMismatch", "TID mismatch")
        ELSE IF hdr.length # Len(response) - 6
        THEN raise("ModbusException", "Length mismatch")
        ELSE IF Len(payload) = 0
        THEN raise("ModbusException", "Empty payload")
        ELSE IF payload[1] >= 128 /\ Len(payload) < 2
        THEN raise("IndexError", "index out of range")
        ELSE IF expected_index = None
        THEN [ err |-> "none", msg |-> "", payload |-> payload ]
        ELSE IF Len(payload) < 10
        THEN raise("ModbusException", "Response too short for index check")
        ELSE IF Len(payload) < 12
        THEN raise("IndexError", "index out of range")
        ELSE IF payload[6] * 256 + payload[7] # expected_index
        THEN raise("ModbusException", "Response index mismatch")
        ELSE IF expected_subindex # None /\ payload[8] # expected_subindex
        THEN raise("ModbusException", "Response subindex mismatch")
        ELSE IF expected_length # None /\ payload[12] # expected_length
        THEN raise("ModbusException", "Response length mismatch")
        ELSE [ err |-> "none", msg |-> "", payload |-> payload ]

\* ---------------------------------------------------------------- the peer
\* What the device may answer to a request frame (MBAP + PDU).
ReplyKinds ==
    { "ok", "exception", "badtid", "badproto", "badindex", "badsub", "badlen" }

ReplyPdu(req_pdu, kind) ==
    LET mirror == Take(req_pdu, 12)
        data == IF req_pdu[3] = 1 THEN Drop(req_pdu, 12)
                ELSE [ i \in 1..req_pdu[12] |-> IF i = 1 THEN 33 ELSE 0 ]
    IN  CASE kind = "exception" -> << req_pdu[1] + 128, 2 >>
          [] kind = "badindex" ->
                 [ mirror EXCEPT ![7] = (@ + 1) % 256 ] \o data
          [] kind = "badsub" -> [ mirror EXCEPT ![8] = (@ + 1) % 256 ] \o data
          [] kind = "badlen" -> [ mirror EXCEPT ![12] = (@ + 1) % 256 ] \o data
          [] OTHER -> mirror \o data

ReplyFrame(req, kind) ==
    LET hdr == UnpackMBAP(Take(req, 7))
        rpdu == ReplyPdu(Drop(req, 7), kind)
        tid == IF kind = "badtid" THEN (hdr.tid + 1) % TidModulus ELSE hdr.tid
        proto == IF kind = "badproto" THEN 1 ELSE 0
    IN  PackMBAP(tid, proto, Len(rpdu) + 1, 0) \o rpdu

\* ------------------------------------------------------------------- state
VARIABLES
    sock,                 \* ModbusTcpTransport._sock: "None" or "open"
    lock,                 \* ModbusTcpTransport._lock: its holder or NoThread
    transaction_id,       \* ModbusTcpTransport._transaction_id
    heartbeat_thread,     \* ModbusTcpTransport._heartbeat_thread
    heartbeat_stop_event, \* ModbusTcpTransport._heartbeat_stop_event
    pc,                   \* position of every thread
    loc,                  \* locals of send_request/close of every thread
    srvq,                 \* request frames the peer has not answered yet
    rxbuf,                \* bytes waiting in the socket's receive buffer
    beats,                \* heartbeat iterations started, all threads
    calls,                \* SDO calls started by the application
    sdoImpl,              \* which DryveSDO the application uses
    sdo,                  \* locals and outcome of the current SDO call
    lastFramed,           \* id of the last framed attempt, None before it
    stopRequested,        \* heartbeat threads the user asked to stop
    input,                \* arguments of the function call under study
    output,               \* << >>, then << what the call returned or raised >>
    dsm,                  \* position and locals of the DriveStateMachine call
    writes,               \* the values sdo.write() was called with, in order
    motor,                \* IgusMotor: its queue, its worker and its callers
    motion                \* DryveController: the wait_motion_complete call

vars == << sock, lock, transaction_id, heartbeat_thread, heartbeat_stop_event,
           pc, loc, srvq, rxbuf, beats, calls, sdoImpl, sdo, lastFramed,
           stopRequested, input, output, dsm, writes, motor, motion >>

\* the transport, the connection and the SDO client
stackVars == << sock, lock, transaction_id, heartbeat_thread,
                heartbeat_stop_event, pc, loc, srvq, rxbuf, beats, calls,
                sdoImpl, sdo, lastFramed, stopRequested >>

\* the layers above and beside them
layerVars == << input, output, dsm, writes, motor, motion >>

transportVars == << sock, lock, transaction_id, heartbeat_thread,
                    heartbeat_stop_event >>

netVars == << srvq, rxbuf >>

SdoImpls == { "protocol", "igusd1" }

InitLoc ==
    [ attempt |-> 0, tid |-> 0, pdu |-> << >>, sent |-> FALSE, exc |-> "none",
      err |-> "none", ctx |-> "none", target |-> NoThread, ret |-> << >> ]

InitSdo ==
    [ op |-> "none", key |-> "none", value |-> 0, attempt |-> 0,
      exchanges |-> 0, refused |-> 0, tid |-> 0, outcome |-> "none",
      result |-> None, mismatch |-> FALSE ]

\* DriveStateMachine before any of its operations is called: the operation
\* called (op), the operation running now (cur) and those initialize_drive
\* runs after it (todo), the position in it (pc), the target and the time
\* left to the deadline of wait_for_state, the polls it has made, the last
\* statusword read, how the call ended, and as history the number of
\* wait_for_state calls, the targets they reached and whether
\* initialize_drive caught a FaultState
InitDsm ==
    [ op |-> "none", cur |-> "none", todo |-> << >>, pc |-> "idle",
      target |-> "none", left |-> 0, polls |-> 0, sw |-> None,
      outcome |-> "none", waits |-> 0, reached |-> << >>,
      swallowed |-> FALSE ]

\* the application threads that call IgusMotor
MotorCallers == { 1, 2 }

\* IgusMotor after construction (_connected set, the worker thread started):
\* the commands in _cmd_queue, each with the number of the call that put it,
\* whether its caller waits for the result and who the caller is; the
\* position of the worker thread and its command; the position of every
\* calling thread and the number of its call; the result queue of every
\* command; the cached _homed and _connected; _stop_event; the number of
\* calls made.  As history: the public calls made, the commands in the order
\* they were put, the commands in the order the worker ran them with how
\* they ended, what every caller received, and the calls made into the
\* controller with the thread that made each.
InitMotor ==
    [ queue |-> << >>, worker |-> "get", wcmd |-> << >>,
      caller |-> [ c \in MotorCallers |-> "idle" ],
      ccmd |-> [ c \in MotorCallers |-> 0 ],
      results |-> << >>, homed |-> FALSE, connected |-> TRUE,
      stop |-> FALSE, calls |-> 0, made |-> << >>, enq |-> << >>,
      executed |-> << >>,
      received |-> [ c \in MotorCallers |-> << >> ], log |-> << >> ]

\* DryveController before wait_motion_complete is called: the position in
\* the call, _is_motion, the last statusword polled (its target-reached and
\* fault bits), timer, positions, and how the call ended; as history the
\* last six positions read
InitMotion ==
    [ pc |-> "idle", is_motion |-> FALSE,
      sw |-> [ target_reached |-> FALSE, fault |-> FALSE ],
      timer |-> 0, positions |-> << >>, outcome |-> "none",
      last6 |-> << >> ]

\* no function call under study, no DriveStateMachine call, no motor command
LayersIdle ==
    /\ input = << >>
    /\ output = << >>
    /\ dsm = InitDsm
    /\ writes = << >>
    /\ motor = InitMotor
    /\ motion = InitMotion

\* ModbusTcpTransport and DryveSDO after construction
StackInit ==
    /\ sock = "None"
    /\ lock = NoThread
    /\ transaction_id = 0
    /\ heartbeat_thread = NoThread
    /\ heartbeat_stop_event = FALSE
    /\ pc = [ t \in Threads |-> IF t = App THEN "idle" ELSE "unborn" ]
    /\ loc = [ t \in Threads |-> InitLoc ]
    /\ srvq = << >>
    /\ rxbuf = << >>
    /\ beats = 0
    /\ calls = 0
    /\ sdoImpl \in SdoImpls
    /\ sdo = InitSdo
    /\ lastFramed = None
    /\ stopRequested = {}

Init ==
    /\ StackInit
    /\ LayersIdle

\* ------------------------------------------------------------ thread helpers
IsAlive(h) == pc[h] \notin { "unborn", "done" }

\* Where a thread continues when send_request returns / raises.
ReturnPc(t) == IF t = App THEN "sdo_parse" ELSE "hb_back"

RaisePc(t) == IF t = App THEN "sdo_exc" ELSE "hb_back"

\* _next_transaction_id without the mask
NextTransactionIdUnmasked(tid) == tid + 1

\* _next_transaction_id
next_transaction_id(tid) == (tid + 1) % TidModulus

HeaderMatchesAny(resp_tid, tid) == TRUE

\* the check of the echoed transaction id in send_request
HeaderMatches(resp_tid, tid) == resp_tid = tid

\* the test at the top of an attempt: "if self._sock is None: self.connect()",
\* and connect() starts with close()
AttemptPc == IF sock = "None" THEN "close" ELSE "sr_send"

AttemptCtx == IF sock = "None" THEN "sr_connect" ELSE "none"

\* --------------------------------------------------------------- send_request
SrAcquireUnguarded(t) ==
    /\ pc[t] = "sr_lock"
    /\ UNCHANGED layerVars
    /\ lock' = t
    /\ pc' = [ pc EXCEPT ![t] = AttemptPc ]
    /\ loc' = [ loc EXCEPT ![t].attempt = 1, ![t].ctx = AttemptCtx ]
    /\ UNCHANGED << sock, transaction_id, heartbeat_thread,
                    heartbeat_stop_event, netVars, beats, calls, sdoImpl, sdo,
                    lastFramed, stopRequested >>

\* "with self._lock" blocks until the lock is free; then the first attempt
\* begins.
SrAcquire(t) ==
    /\ pc[t] = "sr_lock"
    /\ UNCHANGED layerVars
    /\ lock = NoThread
    /\ lock' = t
    /\ pc' = [ pc EXCEPT ![t] = AttemptPc ]
    /\ loc' = [ loc EXCEPT ![t].attempt = 1, ![t].ctx = AttemptCtx ]
    /\ UNCHANGED << sock, transaction_id, heartbeat_thread,
                    heartbeat_stop_event, netVars, beats, calls, sdoImpl, sdo,
                    lastFramed, stopRequested >>

\* top of a further attempt, after the back-off sleep
SrAttempt(t) ==
    /\ pc[t] = "sr_try"
    /\ UNCHANGED layerVars
    /\ pc' = [ pc EXCEPT ![t] = AttemptPc ]
    /\ loc' = [ loc EXCEPT ![t].ctx = AttemptCtx ]
    /\ UNCHANGED << transportVars, netVars, beats, calls, sdoImpl, sdo,
                    lastFramed, stopRequested >>

\* the rest of connect() inside an attempt: the TCP connect succeeds or fails
\* with ConnectionTimeout, which the handler of send_request catches.
SrConnect(t) ==
    /\ pc[t] = "sr_connect"
    /\ UNCHANGED layerVars
    /\ \/ /\ sock' = "open"
          /\ transaction_id' = 0
          /\ srvq' = << >>
          /\ rxbuf' = << >>
          /\ pc' = [ pc EXCEPT ![t] = "sr_send" ]
          /\ UNCHANGED loc
       \/ /\ pc' = [ pc EXCEPT ![t] = "close" ]
          /\ loc' = [ loc EXCEPT ![t].ctx = "sr_handler", ![t].err = "connect" ]
          /\ UNCHANGED << sock, transaction_id, netVars >>
    /\ UNCHANGED << lock, heartbeat_thread, heartbeat_stop_event, beats, calls,
                    sdoImpl, sdo, lastFramed, stopRequested >>

\* allocate the id, frame the PDU, _sendall
SrSend(t) ==
    /\ pc[t] = "sr_send"
    /\ UNCHANGED layerVars
    /\ LET tid == next_transaction_id(transaction_id)
           packet == PackMBAP(tid, 0, Len(loc[t].pdu) + 1, unit_id) \o loc[t].pdu
       IN  /\ transaction_id' = tid
           /\ lastFramed' = tid
           /\ IF sock = "None"
              THEN \* _sendall: "Socket is closed"
                   /\ pc' = [ pc EXCEPT ![t] = "close" ]
                   /\ loc' = [ loc EXCEPT ![t].tid = tid,
                                          ![t].ctx = "sr_handler",
                                          ![t].err = "sock_closed" ]
                   /\ UNCHANGED << sock, netVars >>
              ELSE \/ /\ srvq' = Append(srvq, packet)
                      /\ pc' = [ pc EXCEPT ![t] = "sr_recv" ]
                      /\ loc' = [ loc EXCEPT ![t].tid = tid, ![t].sent = TRUE ]
                      /\ UNCHANGED << sock, rxbuf >>
                   \/ \* socket error during send: socket closed and nulled
                      /\ sock' = "None"
                      /\ srvq' = << >>
                      /\ rxbuf' = << >>
                      /\ pc' = [ pc EXCEPT ![t] = "close" ]
                      /\ loc' = [ loc EXCEPT ![t].tid = tid, ![t].sent = TRUE,
                                             ![t].ctx = "sr_handler",
                                             ![t].err = "send" ]
    /\ UNCHANGED << lock, heartbeat_thread, heartbeat_stop_event, beats, calls,
                    sdoImpl, sdo, stopRequested >>

\* _recv_exact(7), the id check, _recv_exact(payload_len), return
SrRecv(t) ==
    /\ pc[t] = "sr_recv"
    /\ UNCHANGED layerVars
    /\ LET fail(e) ==
               /\ pc' = [ pc EXCEPT ![t] = "close" ]
               /\ loc' = [ loc EXCEPT ![t].ctx = "sr_handler", ![t].err = e ]
               /\ UNCHANGED lock
           timeout_or_close ==
               \/ fail("timeout") /\ rxbuf' = << >> /\ UNCHANGED << sock, srvq >>
               \/ fail("peer_close") /\ sock' = "None" /\ srvq' = << >>
                                     /\ rxbuf' = << >>
       IN  IF sock = "None"
           THEN fail("sock_closed") /\ UNCHANGED << sock, netVars >>
           ELSE IF Len(rxbuf) < 7 THEN timeout_or_close
           ELSE LET mbap == Take(rxbuf, 7)
                    hdr == UnpackMBAP(mbap)
                    payload_len == hdr.length - 1
                    rest == Drop(rxbuf, 7)
                IN  IF ~ HeaderMatches(hdr.tid, loc[t].tid)
                    THEN /\ fail("tid_mismatch")
                         /\ rxbuf' = rest
                         /\ UNCHANGED << sock, srvq >>
                    ELSE IF Len(rest) < payload_len THEN timeout_or_close
                    ELSE /\ rxbuf' = Drop(rest, payload_len)
                         /\ lock' = NoThread
                         /\ pc' = [ pc EXCEPT ![t] = ReturnPc(t) ]
                         /\ loc' = [ loc EXCEPT ![t] =
                                      [ InitLoc EXCEPT
                                          !.tid = loc[t].tid,
                                          !.attempt = loc[t].attempt,
                                          !.ret = mbap \o Take(rest, payload_len) ] ]
                         /\ UNCHANGED << sock, srvq >>
    /\ UNCHANGED << transaction_id, heartbeat_thread, heartbeat_stop_event,
                    beats, calls, sdoImpl, sdo, lastFramed, stopRequested >>

\* ------------------------------------------------- close() / stop_heartbeat()
\* the locals left when send_request leaves with exception e: the exception,
\* the number of the last attempt and what made that attempt fail
Raised(t, e) ==
    [ InitLoc EXCEPT !.exc = e, !.attempt = loc[t].attempt, !.err = loc[t].err ]

\* What follows close() (ctx "user_stop": stop_heartbeat() alone, which leaves
\* the socket).  In the handler of send_request: sleep reconnect_delay, then
\* the next attempt, or the terminal TransportError after max_retries.
AfterClose(t) ==
    LET ctx == loc[t].ctx
    IN  /\ IF ctx = "user_stop"
           THEN UNCHANGED << sock, netVars >>
           ELSE sock' = "None" /\ srvq' = << >> /\ rxbuf' = << >>
        /\ CASE ctx = "sr_handler" ->
                  IF loc[t].attempt < max_retries
                  THEN /\ pc' = [ pc EXCEPT ![t] = "sr_try" ]
                       /\ loc' = [ loc EXCEPT ![t].attempt = @ + 1,
                                              ![t].ctx = "none",
                                              ![t].err = "none",
                                              ![t].target = NoThread ]
                       /\ UNCHANGED lock
                  ELSE /\ pc' = [ pc EXCEPT ![t] = RaisePc(t) ]
                       /\ loc' = [ loc EXCEPT ![t] = Raised(t, "TransportError") ]
                       /\ lock' = NoThread
             [] ctx = "sr_connect" ->
                  /\ pc' = [ pc EXCEPT ![t] = "sr_connect" ]
                  /\ loc' = [ loc EXCEPT ![t].ctx = "none",
                                         ![t].target = NoThread ]
                  /\ UNCHANGED lock
             [] ctx = "user_connect" ->
                  /\ pc' = [ pc EXCEPT ![t] = "u_connect" ]
                  /\ loc' = [ loc EXCEPT ![t] = InitLoc ]
                  /\ UNCHANGED lock
             [] OTHER ->
                  /\ pc' = [ pc EXCEPT ![t] = "idle" ]
                  /\ loc' = [ loc EXCEPT ![t] = InitLoc ]
                  /\ UNCHANGED lock

\* close(): stop_heartbeat() up to the join, and the socket teardown when no
\* heartbeat thread is registered.  Joining the current thread raises
\* RuntimeError, which no handler of send_request catches.
CloseBegin(t) ==
    /\ pc[t] = "close"
    /\ UNCHANGED layerVars
    /\ IF heartbeat_thread = NoThread
       THEN /\ AfterClose(t)
            /\ UNCHANGED heartbeat_stop_event
       ELSE /\ heartbeat_stop_event' = TRUE
            /\ IF heartbeat_thread = t
               THEN /\ pc' = [ pc EXCEPT ![t] = RaisePc(t) ]
                    /\ loc' = [ loc EXCEPT ![t] = Raised(t, "RuntimeError") ]
                    /\ lock' = NoThread
               ELSE /\ pc' = [ pc EXCEPT ![t] = "join" ]
                    /\ loc' = [ loc EXCEPT ![t].target = heartbeat_thread ]
                    /\ UNCHANGED lock
            /\ UNCHANGED << sock, netVars >>
    /\ UNCHANGED << transaction_id, heartbeat_thread, beats, calls, sdoImpl,
                    sdo, lastFramed, stopRequested >>

JoinOverNoTimeout(t) == ~ IsAlive(loc[t].target)

\* join(timeout=2) returns when the thread has ended, or after the timeout
\* while the thread is still inside send_request (blocked on the lock, on the
\* socket or in the back-off sleep) or waits out its interval with the stop
\* event cleared again.
JoinOver(t) ==
    \/ ~ IsAlive(loc[t].target)
    \/ pc[loc[t].target] \in { "sr_lock", "sr_try", "sr_connect", "sr_send",
                               "sr_recv", "close", "join" }
    \/ pc[loc[t].target] \in { "hb_loop", "hb_back" } /\ ~ heartbeat_stop_event

\* the rest of stop_heartbeat() and of close()
JoinReturn(t) ==
    /\ pc[t] = "join"
    /\ UNCHANGED layerVars
    /\ JoinOver(t)
    /\ heartbeat_thread' = NoThread
    /\ heartbeat_stop_event' = FALSE
    /\ AfterClose(t)
    /\ UNCHANGED << transaction_id, beats, calls, sdoImpl, sdo, lastFramed,
                    stopRequested >>

\* ------------------------------------------------------------------ heartbeat
\* One turn of _heartbeat_loop: the wait on the stop event is over, the loop
\* condition is tested, and either the loop ends or the next read of the
\* statusword is handed to send_request.
HeartbeatLoop(h) ==
    /\ h \in HBThreads
    /\ UNCHANGED layerVars
    /\ pc[h] = "hb_loop"
    /\ IF heartbeat_stop_event
       THEN /\ pc' = [ pc EXCEPT ![h] = "done" ]
            /\ UNCHANGED << loc, beats >>
       ELSE /\ beats < MaxBeats
            /\ beats' = beats + 1
            /\ pc' = [ pc EXCEPT ![h] = "sr_lock" ]
            /\ loc' = [ loc EXCEPT ![h] =
                          [ InitLoc EXCEPT !.pdu = build_read_request("statusword") ] ]
    /\ UNCHANGED << transportVars, netVars, calls, sdoImpl, sdo, lastFramed,
                    stopRequested >>

\* send_request is over: the response tuple is ignored, an exception is
\* logged; the loop goes to wait on the stop event.
HeartbeatBack(h) ==
    /\ h \in HBThreads
    /\ UNCHANGED layerVars
    /\ pc[h] = "hb_back"
    /\ pc' = [ pc EXCEPT ![h] = "hb_loop" ]
    /\ loc' = [ loc EXCEPT ![h] = InitLoc ]
    /\ UNCHANGED << transportVars, netVars, beats, calls, sdoImpl, sdo,
                    lastFramed, stopRequested >>

\* ------------------------------------------------- calls made by the user
Started == { h \in HBThreads : pc[h] # "unborn" }

start_heartbeat ==
    /\ pc[App] = "idle"
    /\ UNCHANGED layerVars
    /\ ~ (heartbeat_thread # NoThread /\ IsAlive(heartbeat_thread))
    /\ \E h \in HBThreads :
          /\ pc[h] = "unborn"
          /\ \A g \in HBThreads : pc[g] = "unborn" => h <= g
          /\ heartbeat_stop_event' = FALSE
          /\ heartbeat_thread' = h
          /\ pc' = [ pc EXCEPT ![h] = "hb_loop" ]
    /\ UNCHANGED << sock, lock, transaction_id, loc, netVars, beats, calls,
                    sdoImpl, sdo, lastFramed, stopRequested >>

\* stop_heartbeat(), close() and connect() called by the user: each begins
\* with stop_heartbeat().
UserTeardown(ctx) ==
    /\ pc[App] = "idle"
    /\ UNCHANGED layerVars
    /\ ctx \in { "user_stop", "user_close", "user_connect" }
    /\ pc' = [ pc EXCEPT ![App] = "close" ]
    /\ loc' = [ loc EXCEPT ![App].ctx = ctx ]
    /\ stopRequested' = stopRequested \cup Started
    /\ UNCHANGED << transportVars, netVars, beats, calls, sdoImpl, sdo,
                    lastFramed >>

stop_heartbeat == UserTeardown("user_stop")

close == UserTeardown("user_close")

connect == UserTeardown("user_connect")

\* the rest of connect() called by the user
UserConnect ==
    /\ pc[App] = "u_connect"
    /\ UNCHANGED layerVars
    /\ \/ /\ sock' = "open"
          /\ transaction_id' = 0
          /\ srvq' = << >>
          /\ rxbuf' = << >>
       \/ UNCHANGED << sock, transaction_id, netVars >>
    /\ pc' = [ pc EXCEPT ![App] = "idle" ]
    /\ UNCHANGED << lock, heartbeat_thread, heartbeat_stop_event, loc, beats,
                    calls, sdoImpl, sdo, lastFramed, stopRequested >>

\* ---------------------------------------------------------------- the peer
ServerReply ==
    /\ sock = "open"
    /\ UNCHANGED layerVars
    /\ srvq # << >>
    /\ \E kind \in ReplyKinds :
          rxbuf' = rxbuf \o ReplyFrame(Head(srvq), kind)
    /\ srvq' = Tail(srvq)
    /\ UNCHANGED << transportVars, pc, loc, beats, calls, sdoImpl, sdo,
                    lastFramed, stopRequested >>

\* the lookup and the access check at the top of read()/write(), for a key
\* that is in OD_MAP or not and whose entry declares `access`
SdoAccessCheck(op, known, access) ==
    IF ~ known THEN "ObjectNotFound"
    ELSE IF op = "read" /\ access \notin { "ro", "rw" }
    THEN "AccessViolation"
    ELSE IF op = "write" /\ access \notin { "rw", "wo" }
    THEN "AccessViolation"
    ELSE "none"

\* the access check of the builder for an entry that declares `access`
BuilderAccessCheck(op, access) ==
    IF op = "read" /\ access = "wo" THEN "AccessViolation"
    ELSE IF op = "write" /\ access = "ro" THEN "AccessViolation"
    ELSE "none"

\* the lookup and the access check at the top of read()/write()
SdoAccessError(op, key) ==
    SdoAccessCheck(op, key \in ODKeys,
                   IF key \in ODKeys THEN OD_MAP[key].access ELSE "none")

\* the access check of the builder
BuilderAccessError(op, key) == BuilderAccessCheck(op, OD_MAP[key].access)

SdoOnErrorRetryAll(err, attempt) ==
    IF attempt = max_attempts THEN "raise"
    ELSE IF attempt + 1 <= max_attempts THEN "retry" ELSE "terminal"

SdoOnErrorFallThrough(err, attempt) ==
    IF err = "ModbusException"
    THEN IF attempt + 1 <= max_attempts THEN "retry" ELSE "terminal"
    ELSE "raise"

\* What the retry loop of read/write does with the error of attempt number
\* `attempt`: re-raise it, sleep and run the next attempt, or leave the loop
\* and raise the terminal "Failed to read/write <key>".
SdoOnError(err, attempt) ==
    IF err = "ModbusException"
    THEN IF attempt = max_attempts THEN "raise"
         ELSE IF attempt + 1 <= max_attempts THEN "retry" ELSE "terminal"
    ELSE "raise"

SdoInputs ==
    { << "read", "statusword", 0 >>, << "write", "controlword", 6 >>,
      << "write", "statusword", 6 >>, << "read", "no_such_key", 0 >> }

\* The response differs from the request in the echoed index or subindex
\* or, for a read, in the length byte.
RespMismatch(resp, meta, op) ==
    /\ Len(resp) >= 19
    /\ \/ resp[13] * 256 + resp[14] # meta.index
       \/ resp[15] # meta.subindex
       \/ op = "read" /\ resp[19] # meta.length

\* the request of one attempt
SdoRequest(op, key, value) ==
    IF op = "read" THEN build_read_request(key)
    ELSE build_write_request(key, value)

\* the state of a call that has ended with outcome o
SdoEnded(s, o) == [ s EXCEPT !.outcome = o, !.tid = 0, !.value = 0 ]

\* read()/write() that frames its request before the lookup and the access
\* check: a rejected call has consumed a transaction id
SdoCallFramesFirst ==
    /\ pc[App] = "idle"
    /\ UNCHANGED layerVars
    /\ calls < MaxCalls
    /\ calls' = calls + 1
    /\ \E in \in SdoInputs :
          LET e == SdoAccessError(in[1], in[2])
              s == [ InitSdo EXCEPT !.op = in[1], !.key = in[2],
                                    !.value = in[3] ]
          IN  IF e # "none"
              THEN /\ sdo' = SdoEnded(s, e)
                   /\ pc' = [ pc EXCEPT ![App] = "sdo_done" ]
                   /\ transaction_id' = (transaction_id + 1) % TidModulus
                   /\ UNCHANGED loc
              ELSE /\ sdo' = [ s EXCEPT !.attempt = 1, !.exchanges = 1 ]
                   /\ pc' = [ pc EXCEPT ![App] = "sr_lock" ]
                   /\ loc' = [ loc EXCEPT ![App] =
                                [ InitLoc EXCEPT
                                    !.pdu = SdoRequest(in[1], in[2], in[3]) ] ]
                   /\ UNCHANGED transaction_id
    /\ UNCHANGED << sock, lock, heartbeat_thread, heartbeat_stop_event,
                    netVars, beats, sdoImpl, lastFramed, stopRequested >>

\* read()/write() up to the first send_request: lookup, access check, build
SdoCall ==
    /\ pc[App] = "idle"
    /\ UNCHANGED layerVars
    /\ calls < MaxCalls
    /\ calls' = calls + 1
    /\ \E in \in SdoInputs :
          LET e == SdoAccessError(in[1], in[2])
              s == [ InitSdo EXCEPT !.op = in[1], !.key = in[2],
                                    !.value = in[3] ]
          IN  IF e # "none"
              THEN /\ sdo' = SdoEnded(s, e)
                   /\ pc' = [ pc EXCEPT ![App] = "sdo_done" ]
                   /\ UNCHANGED loc
              ELSE IF BuilderAccessError(in[1], in[2]) # "none"
              THEN /\ sdo' = SdoEnded(s, BuilderAccessError(in[1], in[2]))
                   /\ pc' = [ pc EXCEPT ![App] = "sdo_done" ]
                   /\ UNCHANGED loc
              ELSE /\ sdo' = [ s EXCEPT !.attempt = 1, !.exchanges = 1 ]
                   /\ pc' = [ pc EXCEPT ![App] = "sr_lock" ]
                   /\ loc' = [ loc EXCEPT ![App] =
                                [ InitLoc EXCEPT
                                    !.pdu = SdoRequest(in[1], in[2], in[3]) ] ]
    /\ UNCHANGED << transportVars, netVars, beats, sdoImpl, lastFramed,
                    stopRequested >>

\* The id read()/write() passes to parse_response as expected_tid.
SdoExpectedTid ==
    IF sdoImpl = "protocol" THEN transaction_id ELSE loc[App].tid

\* send_request has returned: the id to check against, parse_response, the
\* decoding of a read, and the except clauses, up to the next send_request.
\* src/protocol.py reads transport._transaction_id and passes on what
\* send_request returned, the pair (tid, bytes), as the response;
\* src/igusd1/protocol.py unpacks the pair.
SdoParse ==
    /\ pc[App] = "sdo_parse"
    /\ UNCHANGED layerVars
    /\ LET meta == OD_MAP[sdo.key]
           tid == SdoExpectedTid
           response == IF sdoImpl = "protocol"
                       THEN << loc[App].tid, loc[App].ret >>
                       ELSE loc[App].ret
           expected_length == IF sdoImpl = "igusd1" /\ sdo.op = "write"
                              THEN None ELSE meta.length
           r == parse_response(response, tid, meta.index, meta.subindex,
                               expected_length)
           mm == sdo.mismatch \/ RespMismatch(loc[App].ret, meta, sdo.op)
           s == [ sdo EXCEPT !.tid = tid, !.mismatch = mm,
                             !.refused = IF r.err = "ModbusException"
                                         THEN @ + 1 ELSE @ ]
           todo == SdoOnError(r.err, sdo.attempt)
       IN  IF r.err = "none"
           THEN /\ sdo' = [ SdoEnded(s, "ok") EXCEPT
                     !.result = IF sdo.op = "read"
                                THEN unpack_value(
                                       Drop(r.payload,
                                            Len(r.payload) - meta.length),
                                       meta.dtype, meta.scale)
                                ELSE None ]
                /\ pc' = [ pc EXCEPT ![App] = "sdo_done" ]
                /\ loc' = [ loc EXCEPT ![App] = InitLoc ]
           ELSE CASE todo = "retry" ->
                       /\ sdo' = [ s EXCEPT !.attempt = @ + 1,
                                            !.exchanges = @ + 1, !.tid = 0 ]
                       /\ pc' = [ pc EXCEPT ![App] = "sr_lock" ]
                       /\ loc' = [ loc EXCEPT ![App] =
                                    [ InitLoc EXCEPT
                                        !.pdu = SdoRequest(sdo.op, sdo.key,
                                                           sdo.value) ] ]
                  [] todo = "terminal" ->
                       /\ sdo' = SdoEnded(s, "DryveError")
                       /\ pc' = [ pc EXCEPT ![App] = "sdo_done" ]
                       /\ loc' = [ loc EXCEPT ![App] = InitLoc ]
                  [] OTHER ->
                       /\ sdo' = SdoEnded(s, r.err)
                       /\ pc' = [ pc EXCEPT ![App] = "sdo_done" ]
                       /\ loc' = [ loc EXCEPT ![App] = InitLoc ]
    /\ UNCHANGED << transportVars, netVars, beats, calls, sdoImpl, lastFramed,
                    stopRequested >>

\* send_request raised: the except clauses of read()/write(); the terminal
\* TransportError is a DryveError and is re-raised
SdoExc ==
    /\ pc[App] = "sdo_exc"
    /\ UNCHANGED layerVars
    /\ LET todo == SdoOnError(loc[App].exc, sdo.attempt)
       IN  CASE todo = "retry" ->
                  /\ sdo' = [ sdo EXCEPT !.attempt = @ + 1, !.exchanges = @ + 1 ]
                  /\ pc' = [ pc EXCEPT ![App] = "sr_lock" ]
                  /\ loc' = [ loc EXCEPT ![App] =
                               [ InitLoc EXCEPT
                                   !.pdu = SdoRequest(sdo.op, sdo.key,
                                                      sdo.value) ] ]
             [] todo = "terminal" ->
                  /\ sdo' = SdoEnded(sdo, "DryveError")
                  /\ pc' = [ pc EXCEPT ![App] = "sdo_done" ]
                  /\ loc' = [ loc EXCEPT ![App] = InitLoc ]
             [] OTHER ->
                  /\ sdo' = SdoEnded(sdo, loc[App].exc)
                  /\ pc' = [ pc EXCEPT ![App] = "sdo_done" ]
                  /\ loc' = [ loc EXCEPT ![App] = InitLoc ]
    /\ UNCHANGED << transportVars, netVars, beats, calls, sdoImpl, lastFramed,
                    stopRequested >>

\* read()/write() hands its value or its exception to the caller
SdoReturn ==
    /\ pc[App] = "sdo_done"
    /\ UNCHANGED layerVars
    /\ sdo' = InitSdo
    /\ pc' = [ pc EXCEPT ![App] = "idle" ]
    /\ UNCHANGED << transportVars, netVars, loc, beats, calls, sdoImpl,
                    lastFramed, stopRequested >>

\* --------------------------------------------------------------- specification
Next ==
    \/ \E t \in Threads : SrAcquire(t)
    \/ \E t \in Threads : SrAttempt(t)
    \/ \E t \in Threads : SrConnect(t)
    \/ \E t \in Threads : SrSend(t)
    \/ \E t \in Threads : SrRecv(t)
    \/ \E t \in Threads : CloseBegin(t)
    \/ \E t \in Threads : JoinReturn(t)
    \/ \E h \in HBThreads : HeartbeatLoop(h)
    \/ \E h \in HBThreads : HeartbeatBack(h)
    \/ start_heartbeat
    \/ stop_heartbeat
    \/ close
    \/ connect
    \/ UserConnect
    \/ ServerReply
    \/ SdoCall
    \/ SdoParse
    \/ SdoExc
    \/ SdoReturn

Spec == Init /\ [][Next]_vars

\* ------------------------------------------------------------------ properties
\* C1: while one caller's send_request is between its first send and its
\* return or failure, no other caller has sent anything or is receiving.
C1_NoInterleaving ==
    \A t, u \in Threads :
        (t # u /\ loc[t].sent) => (~ loc[u].sent /\ pc[u] # "sr_recv")

\* A caller is retrying after a send while another caller waits for the lock.
C1_Witness ==
    \E t, u \in Threads :
        /\ t # u
        /\ loc[t].sent
        /\ loc[t].attempt > 1
        /\ pc[u] = "sr_lock"

\* C2: the id framed by an attempt is the id of the previously framed attempt
\* plus one modulo 65536, also when connect() ran between the two attempts.
C2_SequentialIds ==
    [][ \A t \in Threads :
          (pc[t] = "sr_send" /\ pc'[t] # "sr_send" /\ lastFramed # None)
              => lastFramed' = (lastFramed + 1) % TidModulus ]_vars

\* C3: what send_request returns carries, in its header, the id framed in the
\* attempt that returned it.
C3_ReturnedIdMatches ==
    \A t \in Threads :
        (pc[t] = ReturnPc(t) /\ loc[t].ret # << >>)
            => UnpackMBAP(Take(loc[t].ret, 7)).tid = loc[t].tid

\* send_request has returned a response from a retry, that is after at least
\* one failed attempt of the same call.
C3_Witness ==
    \E t \in Threads :
        /\ pc[t] = ReturnPc(t)
        /\ loc[t].ret # << >>
        /\ loc[t].attempt > 1

\* C4: the id DryveSDO checks a response against is the id the transport
\* assigned to the exchange that produced the response.
C4_SdoChecksOwnId ==
    pc[App] = "sdo_parse" => SdoExpectedTid = loc[App].tid

\* C5: a send_request call whose attempts failed at the transport level
\* leaves only with the terminal TransportError, after exactly max_retries
\* attempts.
C5_BoundedRetry ==
    \A t \in Threads :
        (pc[t] = RaisePc(t) /\ loc[t].exc # "none" /\ loc[t].err # "none")
            => (loc[t].exc = "TransportError" /\ loc[t].attempt = max_retries)

IOErrors == { "send", "peer_close", "timeout" }

\* C6: when the handler of an attempt that failed with an I/O error is left,
\* for the next attempt or out of send_request, the socket is absent.
C6_SocketLifecycle ==
    [][ \A t \in Threads :
          ( /\ pc[t] \in { "close", "join" }
            /\ loc[t].ctx = "sr_handler"
            /\ loc[t].err \in IOErrors
            /\ pc'[t] \notin { "close", "join" } )
              => sock' = "None" ]_vars

\* C7: when a heartbeat thread has caught the transport failure of its own
\* send_request and the user has asked for no stop, the stop event is not set, so the loop
\* goes on.
C7_HeartbeatSurvives ==
    \A h \in HBThreads :
        ( /\ pc[h] = "hb_back"
          /\ loc[h].exc # "none"
          /\ loc[h].err # "none"
          /\ h \notin stopRequested )
            => ~ heartbeat_stop_event

\* C8: a further exchange is made only after an exchange that ended in
\* ModbusException; ModbusException is raised after exactly max_attempts such
\* exchanges; a lookup or access error is raised before any exchange, and a
\* terminal TransportError or a TransactionMismatch ends the call with the
\* exchange that raised it.
C8_RetryPolicy ==
    /\ sdo.exchanges <= max_attempts
    /\ (sdo.op # "none" /\ pc[App] # "sdo_done") =>
          sdo.exchanges = sdo.refused + 1
    /\ pc[App] = "sdo_done" =>
          /\ sdo.outcome = "ModbusException" =>
                (sdo.exchanges = max_attempts /\ sdo.refused = max_attempts)
          /\ (sdo.exchanges > 0 /\ sdo.refused = sdo.exchanges) =>
                (sdo.outcome = "ModbusException" /\ sdo.exchanges = max_attempts)
          /\ sdo.outcome \in { "ObjectNotFound", "AccessViolation" } =>
                sdo.exchanges = 0
          /\ sdo.outcome \in { "TransportError", "TransactionMismatch" } =>
                sdo.exchanges = sdo.refused + 1

\* A read whose three exchanges were all refused ends with ModbusException.
C8_Witness ==
    /\ pc[App] = "sdo_done"
    /\ sdo.op = "read"
    /\ sdo.outcome = "ModbusException"
    /\ sdo.exchanges = max_attempts

\* C9 as stated: a call that has used up its attempts ends with the terminal
\* "Failed to read/write <key>" error, not with the error of the last attempt.
C9_TerminalFailureNamesKey ==
    (pc[App] = "sdo_done" /\ sdo.refused = max_attempts)
        => sdo.outcome = "DryveError"

\* C9 amended: a call that has used up its attempts ends with the
\* ModbusException of its last attempt, and no call ends with the terminal
\* "Failed to read/write <key>" error.
C9_ExhaustionReraises ==
    pc[App] = "sdo_done" =>
        /\ sdo.outcome # "DryveError"
        /\ sdo.refused = max_attempts => sdo.outcome = "ModbusException"

\* A write has used up its attempts.
C9_Witness ==
    /\ pc[App] = "sdo_done"
    /\ sdo.op = "write"
    /\ sdo.refused = max_attempts

\* C10: once a response differed from its request in the echoed index or
\* subindex or, for a read, in the length byte, the call has ended with an
\* error; no further exchange is under way.
C10_MismatchNotRetried ==
    sdo.mismatch => (pc[App] = "sdo_done" /\ sdo.outcome # "ok")

\* ===================================================== request construction
\* read()/write() up to the request of their first attempt, and the builder
\* called directly, for every access type an entry can declare.

\* the callers of the access checks
RequestLayers == { "sdo", "builder" }

\* the values handed to write()
RequestValues == { 0 - 1, 6, 2000 }

RequestInputs ==
    { [ layer |-> l, op |-> o, key |-> k, access |-> a, value |-> v ] :
        l \in RequestLayers, o \in { "read", "write" },
        k \in ODKeys, a \in AccessType, v \in RequestValues }
    \cup
    { [ layer |-> l, op |-> o, key |-> "no_such_key", access |-> "none",
        value |-> v ] :
        l \in RequestLayers, o \in { "read", "write" }, v \in RequestValues }

\* the entry the call looks up: the one of OD_MAP, declared with in.access
RequestEntry(in) == [ OD_MAP[in.key] EXCEPT !.access = in.access ]

Raises(e) == [ err |-> e, pdu |-> << >> ]

\* build_read_request / build_write_request: the error raised, or the PDU
BuilderResult(in) ==
    IF in.key \notin ODKeys THEN Raises("KeyError")
    ELSE LET obj == RequestEntry(in)
             pdu == IF in.op = "read" THEN ReadRequestPdu(obj)
                    ELSE WriteRequestPdu(obj, in.value)
             packed_data == Drop(pdu, 12)
         IN IF BuilderAccessCheck(in.op, obj.access) # "none"
            THEN Raises(BuilderAccessCheck(in.op, obj.access))
            ELSE IF in.op = "read" THEN [ err |-> "none", pdu |-> pdu ]
            ELSE IF packed_data = StructError THEN Raises("struct.error")
            ELSE IF packed_data = CodecError THEN Raises("CodecError")
            ELSE IF Len(packed_data) # obj.length THEN Raises("ValueError")
            ELSE [ err |-> "none", pdu |-> pdu ]

\* read()/write() up to the send_request of the first attempt
SdoResult(in) ==
    LET e == SdoAccessCheck(in.op, in.key \in ODKeys, in.access)
    IN IF e # "none" THEN Raises(e) ELSE BuilderResult(in)

InitRequest ==
    /\ StackInit
    /\ sdoImpl = "protocol"
    /\ input \in RequestInputs
    /\ output = << >>
    /\ dsm = InitDsm
    /\ writes = << >>
    /\ motor = InitMotor
    /\ motion = InitMotion

\* the call is made
Request ==
    /\ input \in RequestInputs
    /\ output = << >>
    /\ output' = << IF input.layer = "sdo" THEN SdoResult(input)
                    ELSE BuilderResult(input) >>
    /\ UNCHANGED << stackVars, input, dsm, writes, motor, motion >>

NextRequest == Request

SpecRequest == InitRequest /\ [][NextRequest]_vars

\* C11: DryveSDO.read/write reject with AccessViolation exactly a read of a
\* write-only entry and a write of a read-only or constant entry, admit every
\* other pair (reading a constant entry among them), and fail with
\* ObjectNotFound for an unknown key.
C11_AccessTable ==
    (output # << >> /\ input.layer = "sdo") =>
        IF input.key \notin ODKeys THEN output[1].err = "ObjectNotFound"
        ELSE IF input.op = "read" /\ input.access = "wo"
        THEN output[1].err = "AccessViolation"
        ELSE IF input.op = "write" /\ input.access \in { "ro", "const" }
        THEN output[1].err = "AccessViolation"
        ELSE output[1].err \notin { "AccessViolation", "ObjectNotFound" }

\* the number the bytes b hold, little-endian
RECURSIVE LEValue(_)
LEValue(b) == IF b = << >> THEN 0 ELSE b[1] + 256 * LEValue(Tail(b))

\* 256 to the power n
Radix(n) == LEValue([ i \in 1..n |-> 0 ] \o << 1 >>)

\* C20: a write PDU carries rw = 1, the entry's index big-endian, its
\* subindex and its declared length, then the value little-endian (two's
\* complement for a negative one); for profile_velocity and 2000 that is
\* rw = 1, length byte 4 and the bytes D0 07 00 00.
C20_WritePduLayout ==
    (output # << >> /\ input.op = "write" /\ output[1].err = "none") =>
        LET obj == RequestEntry(input)
            pdu == output[1].pdu
            data == Drop(pdu, 12)
        IN /\ Len(pdu) = 12 + obj.length
           /\ pdu[1] = 43 /\ pdu[2] = 13
           /\ pdu[3] = 1
           /\ pdu[6] * 256 + pdu[7] = obj.index
           /\ pdu[8] = obj.subindex
           /\ pdu[12] = obj.length
           /\ LEValue(data) = IF input.value >= 0 THEN input.value
                              ELSE input.value + Radix(obj.length)
           /\ (input.key = "profile_velocity" /\ input.value = 2000) =>
                  /\ pdu[12] = 4
                  /\ data = << 208, 7, 0, 0 >>

\* The builder has made the write request for profile_velocity and 2000.
C20_Witness ==
    /\ output # << >>
    /\ input.layer = "builder"
    /\ input.op = "write"
    /\ input.key = "profile_velocity"
    /\ input.access = "rw"
    /\ input.value = 2000
    /\ output[1].err = "none"

\* C21: every request PDU the builder makes has 13 fixed bytes: 0x2B, 0x0D,
\* rw, three zero bytes, the index, the subindex, three zero bytes and the
\* data length at offset 12 (where IgusD1Emulator.handle_pdu reads it),
\* followed by that many payload bytes for a write and by nothing for a read.
C21_FixedLayout ==
    (output # << >> /\ output[1].err = "none") =>
        LET obj == RequestEntry(input)
            pdu == output[1].pdu
        IN /\ Len(pdu) = 13 + (IF input.op = "write" THEN obj.length ELSE 0)
           /\ pdu[1] = 43 /\ pdu[2] = 13
           /\ pdu[3] = (IF input.op = "write" THEN 1 ELSE 0)
           /\ pdu[4] = 0 /\ pdu[5] = 0 /\ pdu[6] = 0
           /\ pdu[7] * 256 + pdu[8] = obj.index
           /\ pdu[9] = obj.subindex
           /\ pdu[10] = 0 /\ pdu[11] = 0 /\ pdu[12] = 0
           /\ pdu[13] = obj.length

\* ======================================================== response parsing
\* parse_response applied to the answers to one read of statusword, sound or
\* damaged in any combination of ways.

\* the transaction id of the exchange whose response is parsed
ParseTid == 5

\* the ways a response can differ from the sound one
ParseFaults ==
    { "short", "proto", "tid", "framelen", "exception", "funcbit", "index",
      "subindex", "lenbyte" }

\* the response frame with the faults fs: "exception" is the two-byte
\* exception PDU (function | 0x80, code 2), "funcbit" a complete answer whose
\* function byte has the high bit set, "short" the first 8 bytes only
ParseResponse(fs) ==
    LET meta == OD_MAP["statusword"]
        fn == IF "funcbit" \in fs \/ "exception" \in fs THEN 43 + 128 ELSE 43
        idx == IF "index" \in fs THEN meta.index + 1 ELSE meta.index
        sub == IF "subindex" \in fs THEN meta.subindex + 1 ELSE meta.subindex
        len == IF "lenbyte" \in fs THEN meta.length + 1 ELSE meta.length
        pdu == IF "exception" \in fs THEN << fn, 2 >>
               ELSE << fn, 13, 0, 0, 0 >> \o U16BE(idx)
                    \o << sub, 0, 0, 0, len, 33, 0 >>
        frame == PackMBAP(IF "tid" \in fs THEN ParseTid + 1 ELSE ParseTid,
                          IF "proto" \in fs THEN 1 ELSE 0,
                          IF "framelen" \in fs THEN Len(pdu) + 2
                          ELSE Len(pdu) + 1,
                          unit_id) \o pdu
    IN IF "short" \in fs THEN Take(frame, 8) ELSE frame

\* the calls: a response, and whether the caller supplies the expected index,
\* subindex and length
ParseInputs ==
    { [ faults |-> fs, supplied |-> b ] :
        fs \in SUBSET ParseFaults, b \in BOOLEAN }

InitParse ==
    /\ StackInit
    /\ sdoImpl = "protocol"
    /\ input \in ParseInputs
    /\ output = << >>
    /\ dsm = InitDsm
    /\ writes = << >>
    /\ motor = InitMotor
    /\ motion = InitMotion

\* the call is made
Parse ==
    /\ input \in ParseInputs
    /\ output = << >>
    /\ LET meta == OD_MAP["statusword"]
       IN output' =
            << IF input.supplied
               THEN parse_response(ParseResponse(input.faults), ParseTid,
                                   meta.index, meta.subindex, meta.length)
               ELSE parse_response(ParseResponse(input.faults), ParseTid,
                                   None, None, None) >>
    /\ UNCHANGED << stackVars, input, dsm, writes, motor, motion >>

NextParse == Parse

SpecParse == InitParse /\ [][NextParse]_vars

\* the response of the call reaches the check for an exception response
ParsePassesFraming ==
    input.faults \cap { "short", "proto", "tid", "framelen" } = {}

\* the response of the call has the high bit of its function byte set
ParseIsException == input.faults \cap { "exception", "funcbit" } # {}

\* C12: the error parse_response reports is that of the first violated check
\* in the order header length, protocol id, transaction id, frame length,
\* exception response, echoed index / subindex / length; a response that
\* violates none is returned as its payload.
C12_CheckOrder ==
    output # << >> =>
        LET fs == input.faults
            out == output[1]
        IN IF "short" \in fs
           THEN out.err = "ModbusException" /\ out.msg = "Response too short"
           ELSE IF "proto" \in fs
           THEN out.err = "ModbusException" /\ out.msg = "Protocol ID mismatch"
           ELSE IF "tid" \in fs
           THEN out.err = "TransactionMismatch"
           ELSE IF "framelen" \in fs
           THEN out.err = "ModbusException" /\ out.msg = "Length mismatch"
           ELSE IF ParseIsException
           THEN out.err = "ModbusException" /\ out.msg = "Modbus Exception"
           ELSE IF input.supplied /\ "index" \in fs
           THEN out.err = "ModbusException"
                /\ out.msg = "Response index mismatch"
           ELSE IF input.supplied /\ "subindex" \in fs
           THEN out.err = "ModbusException"
                /\ out.msg = "Response subindex mismatch"
           ELSE IF input.supplied /\ "lenbyte" \in fs
           THEN out.err = "ModbusException"
                /\ out.msg = "Response length mismatch"
           ELSE out.err = "none"
                /\ out.payload = Drop(ParseResponse(fs), 7)

\* C13: a response whose function byte has the high bit set is reported as
\* the ModbusException of an exception response, with or without expected
\* index, subindex and length; it is never returned as a payload.
C13_ExceptionReported ==
    (output # << >> /\ ParsePassesFraming /\ ParseIsException) =>
        /\ output[1].err = "ModbusException"
        /\ output[1].msg = "Modbus Exception"

\* ================================================================ state_bits
\* a & b for non-negative integers
RECURSIVE BitAnd(_, _)
BitAnd(a, b) ==
    IF a = 0 \/ b = 0 THEN 0
    ELSE (a % 2) * (b % 2) + 2 * BitAnd(a \div 2, b \div 2)

\* class DriveState
DriveState ==
    { "NOT_READY_TO_SWITCH_ON", "SWITCH_ON_DISABLED", "READY_TO_SWITCH_ON",
      "SWITCHED_ON", "OPERATION_ENABLED", "QUICK_STOP_ACTIVE",
      "FAULT_REACTION_ACTIVE", "FAULT" }

SW_FAULT == 8

CW_SHUTDOWN == 6

CW_SWITCH_ON == 7

CW_ENABLE_OPERATION == 15

CW_DISABLE_VOLTAGE == 0

CW_QUICK_STOP == 2

CW_FAULT_RESET == 128

parse_drive_state_one_mask(statusword) ==
    IF BitAnd(statusword, 111) = 0 THEN "NOT_READY_TO_SWITCH_ON"
    ELSE IF BitAnd(statusword, 111) = 64 THEN "SWITCH_ON_DISABLED"
    ELSE IF BitAnd(statusword, 111) = 33 THEN "READY_TO_SWITCH_ON"
    ELSE IF BitAnd(statusword, 111) = 35 THEN "SWITCHED_ON"
    ELSE IF BitAnd(statusword, 111) = 39 THEN "OPERATION_ENABLED"
    ELSE IF BitAnd(statusword, 111) = 7 THEN "QUICK_STOP_ACTIVE"
    ELSE IF BitAnd(statusword, 111) = 15 THEN "FAULT_REACTION_ACTIVE"
    ELSE IF BitAnd(statusword, 111) = 8 THEN "FAULT"
    ELSE "NOT_READY_TO_SWITCH_ON"

\* parse_drive_state: 0x004F = 79, 0x006F = 111
parse_drive_state(statusword) ==
    IF BitAnd(statusword, 79) = 0 THEN "NOT_READY_TO_SWITCH_ON"
    ELSE IF BitAnd(statusword, 111) = 64 THEN "SWITCH_ON_DISABLED"
    ELSE IF BitAnd(statusword, 111) = 33 THEN "READY_TO_SWITCH_ON"
    ELSE IF BitAnd(statusword, 111) = 35 THEN "SWITCHED_ON"
    ELSE IF BitAnd(statusword, 111) = 39 THEN "OPERATION_ENABLED"
    ELSE IF BitAnd(statusword, 111) = 7 THEN "QUICK_STOP_ACTIVE"
    ELSE IF BitAnd(statusword, 79) = 15 THEN "FAULT_REACTION_ACTIVE"
    ELSE IF BitAnd(statusword, 79) = 8 THEN "FAULT"
    ELSE "NOT_READY_TO_SWITCH_ON"

StatuswordFaultWrongBit(value) == BitAnd(value, 16) # 0

\* Statusword(value).fault
StatuswordFault(value) == BitAnd(value, SW_FAULT) # 0

controlword_for_state_swapped(state) ==
    CASE state = "NOT_READY_TO_SWITCH_ON" -> 0
      [] state = "SWITCH_ON_DISABLED" -> CW_QUICK_STOP
      [] state = "READY_TO_SWITCH_ON" -> CW_SHUTDOWN
      [] state = "SWITCHED_ON" -> CW_SWITCH_ON
      [] state = "OPERATION_ENABLED" -> CW_ENABLE_OPERATION
      [] state = "QUICK_STOP_ACTIVE" -> CW_DISABLE_VOLTAGE
      [] state = "FAULT" -> CW_FAULT_RESET
      [] OTHER -> 0

\* controlword_for_state: mapping.get(state, 0x0000)
controlword_for_state(state) ==
    CASE state = "NOT_READY_TO_SWITCH_ON" -> 0
      [] state = "SWITCH_ON_DISABLED" -> CW_DISABLE_VOLTAGE
      [] state = "READY_TO_SWITCH_ON" -> CW_SHUTDOWN
      [] state = "SWITCHED_ON" -> CW_SWITCH_ON
      [] state = "OPERATION_ENABLED" -> CW_ENABLE_OPERATION
      [] state = "QUICK_STOP_ACTIVE" -> CW_QUICK_STOP
      [] state = "FAULT" -> CW_FAULT_RESET
      [] OTHER -> 0

\* ======================================================== statusword decoding
\* parse_drive_state applied to every 16-bit statusword.

\* the values of a uint16 statusword
Statuswords16 == 0..65535

InitDecode ==
    /\ StackInit
    /\ sdoImpl = "protocol"
    /\ input \in Statuswords16
    /\ output = << >>
    /\ dsm = InitDsm
    /\ writes = << >>
    /\ motor = InitMotor
    /\ motion = InitMotion

\* the call is made
Decode ==
    /\ input \in Statuswords16
    /\ output = << >>
    /\ output' = << parse_drive_state(input) >>
    /\ UNCHANGED << stackVars, input, dsm, writes, motor, motion >>

NextDecode == Decode

SpecDecode == InitDecode /\ [][NextDecode]_vars

\* the decode table of the specification: mask, value, state
DecodeTable ==
    << << 79, 0, "NOT_READY_TO_SWITCH_ON" >>,
       << 111, 64, "SWITCH_ON_DISABLED" >>,
       << 111, 33, "READY_TO_SWITCH_ON" >>,
       << 111, 35, "SWITCHED_ON" >>,
       << 111, 39, "OPERATION_ENABLED" >>,
       << 111, 7, "QUICK_STOP_ACTIVE" >>,
       << 79, 15, "FAULT_REACTION_ACTIVE" >>,
       << 79, 8, "FAULT" >> >>

\* the rows of the table that match sw
DecodeMatches(sw) ==
    { i \in 1..Len(DecodeTable) :
        BitAnd(sw, DecodeTable[i][1]) = DecodeTable[i][2] }

\* first match wins, fallback NotReadyToSwitchOn
DecodeByTable(sw) ==
    IF DecodeMatches(sw) = {} THEN "NOT_READY_TO_SWITCH_ON"
    ELSE LET i == CHOOSE j \in DecodeMatches(sw) :
                      \A k \in DecodeMatches(sw) : j <= k
         IN DecodeTable[i][3]

\* the statusword examples of the specification
DecodeExamples ==
    << << 33, "READY_TO_SWITCH_ON" >>, << 35, "SWITCHED_ON" >>,
       << 39, "OPERATION_ENABLED" >>, << 64, "SWITCH_ON_DISABLED" >>,
       << 7, "QUICK_STOP_ACTIVE" >>, << 15, "FAULT_REACTION_ACTIVE" >>,
       << 8, "FAULT" >> >>

\* C18: for every 16-bit statusword parse_drive_state gives a drive state,
\* the one the ordered mask/value table gives with first match winning and
\* fallback NotReadyToSwitchOn; the bits outside 0x006F do not change it,
\* and neither does bit 5 where the matching row has mask 0x004F.
C18_DecodeTable ==
    output # << >> =>
        /\ output[1] \in DriveState
        /\ output[1] = DecodeByTable(input)
        /\ output[1] = parse_drive_state(BitAnd(input, 111))
        /\ BitAnd(input, 79) \in { 0, 15, 8 } =>
               output[1] = parse_drive_state(BitAnd(input, 79))
        /\ \A i \in 1..Len(DecodeExamples) :
               input = DecodeExamples[i][1] => output[1] = DecodeExamples[i][2]

\* A statusword with bits outside the masks set has been decoded as Fault.
C18_Witness ==
    /\ output = << "FAULT" >>
    /\ input = 1024 + 32 + 8

\* ========================================================= DriveStateMachine
\* One call of an operation of DriveStateMachine on a DryveSDO whose read of
\* the statusword gives what the device reports at that moment, or fails.

\* bound: the ticks one read of the statusword can take
MaxReadTime == 1

\* DriveStateMachine.__init__ defaults, in ticks of one second
poll_delay == 1

timeout == 5

\* the statuswords the device reports
DeviceStatuswords == { 0, 7, 8, 15, 33, 35, 39, 64, 1571 }

DsmOps ==
    { "wait_for_state", "fault_reset", "shutdown", "switch_on",
      "enable_operation", "disable_voltage", "quick_stop",
      "initialize_drive" }

\* the state whose controlword the operation writes
OpWord(cur) ==
    CASE cur = "fault_reset" -> "FAULT"
      [] cur = "shutdown" -> "READY_TO_SWITCH_ON"
      [] cur = "switch_on" -> "SWITCHED_ON"
      [] cur = "enable_operation" -> "OPERATION_ENABLED"
      [] cur = "disable_voltage" -> "SWITCH_ON_DISABLED"
      [] cur = "quick_stop" -> "QUICK_STOP_ACTIVE"

\* the state the operation waits for
OpTarget(cur) ==
    CASE cur = "fault_reset" -> "SWITCH_ON_DISABLED"
      [] cur = "shutdown" -> "READY_TO_SWITCH_ON"
      [] cur = "switch_on" -> "SWITCHED_ON"
      [] cur = "enable_operation" -> "OPERATION_ENABLED"
      [] cur = "disable_voltage" -> "SWITCH_ON_DISABLED"
      [] cur = "quick_stop" -> "QUICK_STOP_ACTIVE"

InitializeStepsSwapped == << "switch_on", "shutdown", "enable_operation" >>

\* what initialize_drive runs after fault_reset
InitializeSteps == << "shutdown", "switch_on", "enable_operation" >>

\* the operation cur begins
DsmBegin(d, cur) ==
    [ d EXCEPT !.cur = cur,
               !.pc = IF cur = "fault_reset" THEN "set_mode_6" ELSE "write" ]

\* wait_for_state(target) begins: the deadline is computed
DsmWait(d, target) ==
    [ d EXCEPT !.pc = "wait", !.target = target, !.left = timeout,
               !.polls = 0, !.waits = @ + 1 ]

\* the running operation returns: the call ends, or initialize_drive goes on
DsmReturned(d) ==
    IF d.todo = << >> THEN [ d EXCEPT !.pc = "done", !.outcome = "ok" ]
    ELSE DsmBegin([ d EXCEPT !.todo = Tail(@) ], Head(d.todo))

DsmRaisedCatchAll(d, e) ==
    IF d.op = "initialize_drive" /\ d.cur = "fault_reset"
    THEN DsmReturned([ d EXCEPT !.swallowed = TRUE ])
    ELSE [ d EXCEPT !.pc = "done", !.outcome = e ]

\* the running operation raises e: initialize_drive catches the FaultState
\* of fault_reset, everything else ends the call
DsmRaised(d, e) ==
    IF e = "FaultState" /\ d.op = "initialize_drive" /\ d.cur = "fault_reset"
    THEN DsmReturned([ d EXCEPT !.swallowed = TRUE ])
    ELSE [ d EXCEPT !.pc = "done", !.outcome = e ]

WaitVerdictTargetFirst(sw, target) ==
    IF parse_drive_state(sw) = target THEN "return"
    ELSE IF StatuswordFault(sw) THEN "FaultState"
    ELSE "sleep"

WaitVerdictNoFault(sw, target) ==
    IF parse_drive_state(sw) = target THEN "return" ELSE "sleep"

\* the body of the loop of wait_for_state for the statusword sw
WaitVerdict(sw, target) ==
    IF StatuswordFault(sw) THEN "FaultState"
    ELSE IF parse_drive_state(sw) = target THEN "return"
    ELSE "sleep"

InitMachine ==
    /\ StackInit
    /\ sdoImpl = "igusd1"
    /\ input = << >>
    /\ output = << >>
    /\ dsm = InitDsm
    /\ writes = << >>
    /\ motor = InitMotor
    /\ motion = InitMotion

\* an operation is called
DsmCall ==
    /\ dsm.pc = "idle"
    /\ \E op \in DsmOps, target \in DriveState :
          dsm' = IF op = "wait_for_state"
                 THEN DsmWait([ dsm EXCEPT !.op = op, !.cur = op ], target)
                 ELSE IF op = "initialize_drive"
                 THEN DsmBegin([ dsm EXCEPT !.op = op,
                                            !.todo = InitializeSteps ],
                               "fault_reset")
                 ELSE DsmBegin([ dsm EXCEPT !.op = op ], op)
    /\ UNCHANGED << stackVars, input, output, writes, motor,
                    motion >>

\* set_mode(6) and set_mode(1) at the top of fault_reset
DsmSetMode ==
    /\ dsm.pc \in { "set_mode_6", "set_mode_1" }
    /\ writes' = Append(writes, << "mode_of_operation",
                                   IF dsm.pc = "set_mode_6" THEN 6 ELSE 1 >>)
    /\ \/ dsm' = [ dsm EXCEPT !.pc = IF dsm.pc = "set_mode_6"
                                     THEN "set_mode_1" ELSE "read_sw" ]
       \/ dsm' = DsmRaised(dsm, "SdoError")
    /\ UNCHANGED << stackVars, input, output, motor, motion >>

\* fault_reset reads the statusword and returns when Fault is not set
DsmReadStatusword ==
    /\ dsm.pc = "read_sw"
    /\ \/ \E sw \in DeviceStatuswords :
             dsm' = IF ~ StatuswordFault(sw)
                    THEN DsmReturned([ dsm EXCEPT !.sw = sw ])
                    ELSE [ dsm EXCEPT !.sw = sw, !.pc = "write" ]
       \/ dsm' = DsmRaised(dsm, "SdoError")
    /\ UNCHANGED << stackVars, input, output, writes, motor,
                    motion >>

\* _write_controlword(controlword_for_state(..)), then wait_for_state begins
DsmWriteControlword ==
    /\ dsm.pc = "write"
    /\ writes' = Append(writes, << "controlword",
                                   controlword_for_state(OpWord(dsm.cur)) >>)
    /\ \/ dsm' = DsmWait(dsm, OpTarget(dsm.cur))
       \/ dsm' = DsmRaised(dsm, "SdoError")
    /\ UNCHANGED << stackVars, input, output, motor, motion >>

\* one pass of the loop of wait_for_state: the test of the deadline, the read
\* (it takes d ticks), the checks, the sleep
DsmPoll ==
    /\ dsm.pc = "wait"
    /\ IF dsm.left <= 0
       THEN dsm' = DsmRaised(dsm, "OperationTimeout")
       ELSE \/ \E sw \in DeviceStatuswords, d \in 0..MaxReadTime :
                  LET polled == [ dsm EXCEPT !.sw = sw, !.polls = @ + 1 ]
                      verdict == WaitVerdict(sw, dsm.target)
                      rest == dsm.left - d - poll_delay
                  IN dsm' =
                       IF verdict = "FaultState"
                       THEN DsmRaised(polled, "FaultState")
                       ELSE IF verdict = "return"
                       THEN DsmReturned([ polled EXCEPT
                                !.reached = Append(@, dsm.target) ])
                       ELSE [ polled EXCEPT
                                !.left = IF rest < 0 THEN 0 ELSE rest ]
            \/ dsm' = DsmRaised(dsm, "SdoError")
    /\ UNCHANGED << stackVars, input, output, writes, motor,
                    motion >>

NextMachine ==
    \/ DsmCall
    \/ DsmSetMode
    \/ DsmReadStatusword
    \/ DsmWriteControlword
    \/ DsmPoll

SpecMachine == InitMachine /\ [][NextMachine]_vars

\* the last statusword polled by the running wait_for_state
Polled == dsm.polls > 0

Ended(o) == dsm.pc = "done" /\ dsm.outcome = o

\* C14 as stated: wait_for_state returns at the first poll whose statusword
\* decodes to the target, raises FaultState at the first poll whose
\* statusword has the Fault bit set, and raises OperationTimeout only after
\* the deadline when no poll met either condition.
C14_ThreeOutcomes ==
    (dsm.op = "wait_for_state" /\ Polled) =>
        /\ parse_drive_state(dsm.sw) = dsm.target => Ended("ok")
        /\ StatuswordFault(dsm.sw) => Ended("FaultState")
        /\ dsm.outcome = "ok" => parse_drive_state(dsm.sw) = dsm.target
        /\ dsm.outcome = "FaultState" => StatuswordFault(dsm.sw)
        /\ dsm.outcome = "OperationTimeout" =>
               /\ dsm.left <= 0
               /\ ~ StatuswordFault(dsm.sw)
               /\ parse_drive_state(dsm.sw) # dsm.target

\* C14 amended: the Fault bit is tested first.  wait_for_state raises
\* FaultState at the first poll whose statusword has the Fault bit set, also
\* when that statusword decodes to the target; it returns at the first poll
\* whose statusword has the Fault bit clear and decodes to the target; it
\* raises OperationTimeout only after the deadline when no poll met either
\* condition.
C14_FaultFirst ==
    (dsm.op = "wait_for_state" /\ Polled) =>
        /\ (~ StatuswordFault(dsm.sw)
            /\ parse_drive_state(dsm.sw) = dsm.target) => Ended("ok")
        /\ StatuswordFault(dsm.sw) => Ended("FaultState")
        /\ dsm.outcome = "ok" =>
               /\ ~ StatuswordFault(dsm.sw)
               /\ parse_drive_state(dsm.sw) = dsm.target
        /\ dsm.outcome = "FaultState" => StatuswordFault(dsm.sw)
        /\ dsm.outcome = "OperationTimeout" =>
               /\ dsm.left <= 0
               /\ ~ StatuswordFault(dsm.sw)
               /\ parse_drive_state(dsm.sw) # dsm.target

\* wait_for_state(FAULT) has raised FaultState at a later poll, on the
\* statusword 0x0008 that decodes to its target.
C14_Witness ==
    /\ dsm.op = "wait_for_state"
    /\ dsm.target = "FAULT"
    /\ dsm.polls >= 2
    /\ dsm.sw = 8
    /\ Ended("FaultState")

\* C15: switch_on writes controlword 0x0007 once, before any poll; it
\* succeeds at the poll that reports 0x0023 and raises FaultState at the poll
\* that reports 0x0008.
C15_SwitchOn ==
    dsm.op = "switch_on" =>
        /\ Len(writes) <= 1
        /\ dsm.pc \in { "wait", "done" } =>
               writes = << << "controlword", 7 >> >>
        /\ (Polled /\ dsm.sw = 35) => Ended("ok")
        /\ (Polled /\ dsm.sw = 8) => Ended("FaultState")
        /\ dsm.outcome = "ok" => (Polled /\ dsm.sw \in { 35, 1571 })
        /\ dsm.outcome = "FaultState" => Polled

\* switch_on has succeeded at its third poll or later, on 0x0023.
C15_Witness ==
    /\ dsm.op = "switch_on"
    /\ dsm.polls >= 3
    /\ dsm.sw = 35
    /\ Ended("ok")
    /\ writes = << << "controlword", 7 >> >>

\* C16: fault_reset that read a statusword without the Fault bit has written
\* nothing to the device.
C16_NoFaultNoWrite ==
    (dsm.op = "fault_reset" /\ Ended("ok") /\ dsm.waits = 0) =>
        writes = << >>

\* the controlwords initialize_drive has written after fault_reset
InitializeWords ==
    LET IsStep(w) == w[1] = "controlword" /\ w[2] # CW_FAULT_RESET
        steps == SelectSeq(writes, IsStep)
    IN [ i \in 1..Len(steps) |-> steps[i][2] ]

\* the targets the waits of initialize_drive have reached after fault_reset
InitializeReached ==
    LET IsStep(r) == r # "SWITCH_ON_DISABLED"
    IN SelectSeq(dsm.reached, IsStep)

IsPrefix(a, b) == Len(a) <= Len(b) /\ a = SubSeq(b, 1, Len(a))

\* C17: initialize_drive runs fault_reset first and goes on after its
\* FaultState; it then writes 0x0006, 0x0007, 0x000F in this order, each one
\* only after the wait of the step before reached its target; it succeeds
\* only when the last statusword polled decodes to OperationEnabled and all
\* three waits reached their targets; after a failure nothing more is
\* written.
C17_InitializeOrder ==
    dsm.op = "initialize_drive" =>
        /\ IsPrefix(InitializeWords, << 6, 7, 15 >>)
        /\ IsPrefix(InitializeReached,
                    << "READY_TO_SWITCH_ON", "SWITCHED_ON",
                       "OPERATION_ENABLED" >>)
        /\ Len(InitializeWords) <= Len(InitializeReached) + 1
        /\ Len(InitializeReached) <= Len(InitializeWords)
        /\ InitializeWords # << >> =>
               (dsm.sw # None /\ dsm.cur # "fault_reset")
        /\ dsm.cur = "fault_reset" =>
               \A i \in 1..Len(writes) :
                  writes[i][1] = "controlword" => writes[i][2] = 128
        /\ Ended("ok") =>
               /\ InitializeWords = << 6, 7, 15 >>
               /\ Len(InitializeReached) = 3
               /\ parse_drive_state(dsm.sw) = "OPERATION_ENABLED"
        /\ (dsm.pc = "done" /\ dsm.outcome # "ok") =>
               Len(InitializeReached) < 3

\* initialize_drive has succeeded after catching the FaultState of
\* fault_reset.
C17_Witness ==
    /\ dsm.op = "initialize_drive"
    /\ dsm.swallowed
    /\ Ended("ok")
    /\ InitializeWords = << 6, 7, 15 >>

\* the lookup table of the specification: controlword and state waited for
OperationTable ==
    [ shutdown |-> << 6, "READY_TO_SWITCH_ON" >>,
      switch_on |-> << 7, "SWITCHED_ON" >>,
      enable_operation |-> << 15, "OPERATION_ENABLED" >>,
      disable_voltage |-> << 0, "SWITCH_ON_DISABLED" >>,
      quick_stop |-> << 2, "QUICK_STOP_ACTIVE" >> ]

\* C19: shutdown, switch_on, enable_operation, disable_voltage and quick_stop
\* each make one controlword write, of the value of the lookup table, and
\* then one wait_for_state for the matching state; the controlword
\* fault_reset writes is 0x0080.
C19_ControlwordTable ==
    /\ dsm.op \in DOMAIN OperationTable =>
          LET row == OperationTable[dsm.op]
          IN /\ Len(writes) <= 1
             /\ dsm.waits <= 1
             /\ dsm.waits <= Len(writes)
             /\ writes # << >> => writes[1] = << "controlword", row[1] >>
             /\ dsm.pc = "wait" => dsm.target = row[2]
             /\ Ended("ok") => (dsm.waits = 1 /\ dsm.reached = << row[2] >>)
    /\ dsm.op = "fault_reset" =>
          \A i \in 1..Len(writes) :
             writes[i][1] = "controlword" => writes[i][2] = 128

\* quick_stop has written 0x0002 and its wait has reached QuickStopActive.
C19_Witness ==
    /\ dsm.op = "quick_stop"
    /\ Ended("ok")
    /\ writes = << << "controlword", 2 >> >>
    /\ dsm.reached = << "QUICK_STOP_ACTIVE" >>

\* C30: wait_for_state tests the Fault bit before it compares the decoded
\* state with the target, so wait_for_state(FAULT) and
\* wait_for_state(FAULT_REACTION_ACTIVE) never return: a poll whose
\* statusword decodes to such a target raises FaultState.
C30_FaultTargetsNeverReached ==
    (dsm.op = "wait_for_state"
     /\ dsm.target \in { "FAULT", "FAULT_REACTION_ACTIVE" }) =>
        /\ dsm.outcome # "ok"
        /\ dsm.reached = << >>
        /\ (Polled /\ parse_drive_state(dsm.sw) = dsm.target) =>
               Ended("FaultState")

\* wait_for_state(FAULT_REACTION_ACTIVE) has polled 0x000F, which decodes to
\* its target, and has raised FaultState.
C30_Witness ==
    /\ dsm.op = "wait_for_state"
    /\ dsm.target = "FAULT_REACTION_ACTIVE"
    /\ Polled
    /\ dsm.sw = 15
    /\ parse_drive_state(dsm.sw) = dsm.target
    /\ Ended("FaultState")

\* ================================================================ the codec
\* pack_value followed by unpack_value, for every integer type, the scales
\* CodecScales and values at the ends and in the middle of the range.  The
\* 32-bit types are exercised up to 2^31 - 1 in absolute value.

CodecScales == { 1, 2, 100 }

\* the values v around v * scale = 0 and around the ends of the range of dtype
CodecValues(dtype, scale) ==
    LET f == IntFormat[dtype]
        first == 0 - ((0 - f.lo) \div scale)
        last == f.hi \div scale
    IN { v \in { first, first + 1, 0 - 2, 0 - 1, 0, 1, 2, 127, 128, 129, 255,
                 256, 257, 32767, 32768, 65535, 65536, last - 1, last } :
           first <= v /\ v <= last }

InitCodec ==
    /\ StackInit
    /\ sdoImpl = "protocol"
    /\ \E t \in DOMAIN IntFormat, sc \in CodecScales :
          \E v \in CodecValues(t, sc) :
             input = [ v |-> v, dtype |-> t, scale |-> sc ]
    /\ output = << >>
    /\ dsm = InitDsm
    /\ writes = << >>
    /\ motor = InitMotor
    /\ motion = InitMotion

\* pack_value, then unpack_value of what it returned
Codec ==
    /\ input # << >>
    /\ output = << >>
    /\ LET packed == pack_value(input.v, input.dtype, input.scale)
       IN output' = << [ packed |-> packed,
                         value |-> unpack_value(packed, input.dtype,
                                                input.scale) ] >>
    /\ UNCHANGED << stackVars, input, dsm, writes, motor, motion >>

NextCodec == Codec

SpecCodec == InitCodec /\ [][NextCodec]_vars

\* the byte width of each integer type
TypeWidth ==
    [ uint8 |-> 1, int8 |-> 1, uint16 |-> 2, int16 |-> 2, uint32 |-> 4,
      int32 |-> 4 ]

\* C23: for every integer type t, scale s >= 1 and v with v * s in the range
\* of t, unpack_value(pack_value(v, t, s), t, s) = v, and pack_value gives
\* exactly the byte width of t, least significant byte first (two's
\* complement for a negative value).
C23_CodecRoundTrip ==
    output # << >> =>
        LET packed == output[1].packed
            n == TypeWidth[input.dtype]
        IN /\ output[1].value = input.v
           /\ Len(packed) = n
           /\ \A i \in 1..n :
                 packed[i] = ((input.v * input.scale) \div ByteWeight(i)) % 256

\* The lowest int16 value that scale 100 admits, -327, has been packed into
\* two bytes and unpacked again.
C23_Witness ==
    /\ output # << >>
    /\ input = [ v |-> 0 - 327, dtype |-> "int16", scale |-> 100 ]
    /\ output[1].packed = << 68, 128 >>
    /\ output[1].value = 0 - 327

\* ============================================================ the telegram
\* One read, from the request the builder makes to the value DryveSDO.read
\* returns, for a response that mirrors the request and carries an encoded
\* value, sound or differing from the sound one in one field.

\* readable entries of OD_MAP, one for each integer type and scale in use
\* and the one whose length is not the width of its type
ReadEntries ==
    [ statusword |-> OD_MAP["statusword"],
      profile_velocity |-> OD_MAP["profile_velocity"],
      mode_of_operation_display |->
          [ index |-> 24673, subindex |-> 0, length |-> 1, access |-> "ro",
            dtype |-> "int8", scale |-> 1 ],
      actual_velocity |->
          [ index |-> 24684, subindex |-> 0, length |-> 4, access |-> "ro",
            dtype |-> "int32", scale |-> 100 ],
      error_register |->
          [ index |-> 4097, subindex |-> 0, length |-> 1, access |-> "ro",
            dtype |-> "uint8", scale |-> 1 ],
      predefined_error_field |->
          [ index |-> 4099, subindex |-> 0, length |-> 8, access |-> "ro",
            dtype |-> "uint32", scale |-> 1 ] ]

\* the one field in which the response differs from the sound one
TelegramFaults == { "none", "tid", "index", "length" }

\* the response to the request pdu sent with transaction id tid: the
\* request's 12 fixed bytes, then the encoded value
TelegramResponse(pdu, tid, data, fault) ==
    LET mirror == [ i \in 1..12 |->
                      IF fault = "index" /\ i = 7 THEN (pdu[7] + 1) % 256
                      ELSE IF fault = "length" /\ i = 12
                      THEN (pdu[12] + 1) % 256
                      ELSE pdu[i] ]
        rpdu == mirror \o data
    IN PackMBAP(IF fault = "tid" THEN (tid + 1) % TidModulus ELSE tid,
                0, Len(rpdu) + 1, unit_id) \o rpdu

\* parse_response and the decoding of DryveSDO.read: the error raised
\* ("none" when the value is returned), its message and the value
ReadDecoded(meta, response, tid) ==
    LET r == parse_response(response, tid, meta.index, meta.subindex,
                            meta.length)
        data_bytes == IF Len(r.payload) <= meta.length THEN r.payload
                      ELSE Drop(r.payload, Len(r.payload) - meta.length)
    IN IF r.err # "none"
       THEN [ err |-> r.err, msg |-> r.msg, value |-> None ]
       ELSE IF UnpackRaises(data_bytes, meta.dtype) # "none"
       THEN [ err |-> UnpackRaises(data_bytes, meta.dtype), msg |-> "",
              value |-> None ]
       ELSE [ err |-> "none", msg |-> "",
              value |-> unpack_value(data_bytes, meta.dtype, meta.scale) ]

InitTelegram ==
    /\ StackInit
    /\ sdoImpl = "protocol"
    /\ \E k \in DOMAIN ReadEntries, f \in TelegramFaults :
          \E v \in CodecValues(ReadEntries[k].dtype, ReadEntries[k].scale) :
             input = [ key |-> k, v |-> v, fault |-> f ]
    /\ output = << >>
    /\ dsm = InitDsm
    /\ writes = << >>
    /\ motor = InitMotor
    /\ motion = InitMotion

\* the request is built, the response to it is parsed and decoded
Telegram ==
    /\ input # << >>
    /\ output = << >>
    /\ LET meta == ReadEntries[input.key]
           pdu == ReadRequestPdu(meta)
           data == pack_value(input.v, meta.dtype, meta.scale)
       IN output' = << ReadDecoded(meta,
                          TelegramResponse(pdu, ParseTid, data, input.fault),
                          ParseTid) >>
    /\ UNCHANGED << stackVars, input, dsm, writes, motor, motion >>

NextTelegram == Telegram

SpecTelegram == InitTelegram /\ [][NextTelegram]_vars

\* C22: for every readable key, the read request and a response that mirrors
\* its fixed fields with the same transaction id and carries an encoded value
\* give that value after decoding; a response that differs only in the
\* transaction id, only in the index or only in the length is rejected with
\* TransactionMismatch, the index mismatch error or the length mismatch error.
C22_TelegramRoundTrip ==
    output # << >> =>
        CASE input.fault = "none" ->
                 output[1].err = "none" /\ output[1].value = input.v
          [] input.fault = "tid" -> output[1].err = "TransactionMismatch"
          [] input.fault = "index" ->
                 /\ output[1].err = "ModbusException"
                 /\ output[1].msg = "Response index mismatch"
          [] input.fault = "length" ->
                 /\ output[1].err = "ModbusException"
                 /\ output[1].msg = "Response length mismatch"

\* ================================================== the lock and the threads
\* t is inside send_request: waiting for the lock, in an attempt, or in the
\* close() / connect() its attempt or its failure handler has called
InSendRequest(t) ==
    \/ pc[t] \in { "sr_lock", "sr_try", "sr_connect", "sr_send", "sr_recv" }
    \/ pc[t] \in { "close", "join" } /\ loc[t].ctx \in { "sr_handler", "sr_connect" }

\* the steps thread t takes by itself once a call has been made
ThreadStep(t) ==
    \/ SrAcquire(t)
    \/ SrAttempt(t)
    \/ SrConnect(t)
    \/ SrSend(t)
    \/ SrRecv(t)
    \/ CloseBegin(t)
    \/ JoinReturn(t)
    \/ HeartbeatLoop(t)
    \/ HeartbeatBack(t)
    \/ (t = App /\ (UserConnect \/ SdoParse \/ SdoExc \/ SdoReturn))

\* send_request with the calls that matter to it: heartbeats are started,
\* reads and writes are made, the peer answers or not, and every thread that
\* can take a step is scheduled eventually
NextLive ==
    \/ \E t \in Threads : ThreadStep(t)
    \/ start_heartbeat
    \/ SdoCall
    \/ ServerReply

SpecLive ==
    Init /\ [][NextLive]_vars /\ \A t \in Threads : WF_vars(ThreadStep(t))

\* C24: the socket and the transaction id counter change only in steps of the
\* thread that holds the lock: while a thread's exchange is in flight (it
\* holds the lock and is about to send or waits for the response), no step of
\* another thread's connect(), close() or stop_heartbeat() changes them.
C24_OnlyHolderTouches ==
    [][ \A t \in Threads :
          (lock = t /\ pc[t] \in { "sr_send", "sr_recv" }
           /\ (sock' # sock \/ transaction_id' # transaction_id))
              => pc'[t] # pc[t] ]_vars

\* C26: a thread holds the lock only inside send_request, so every way out
\* releases it; a call makes at most max_retries attempts; a thread leaves
\* the wait for the lock only by acquiring it; and every send_request ends:
\* the blocked thread acquires the lock and the holder, which never waits
\* for another thread longer than the timeout of join, releases it.
C26_SendRequestEnds ==
    /\ [](\A t \in Threads :
            /\ lock = t => (InSendRequest(t) /\ pc[t] # "sr_lock")
            /\ loc[t].attempt <= max_retries)
    /\ [][ \A t \in Threads :
             (pc[t] = "sr_lock" /\ pc'[t] # "sr_lock") => lock' = t ]_vars
    /\ \A t \in Threads : InSendRequest(t) ~> ~ InSendRequest(t)

\* The application's send_request holds the lock and, in the close() its
\* attempt has called, joins a heartbeat thread that is blocked on the lock.
C26_Witness ==
    /\ lock = App
    /\ pc[App] = "join"
    /\ InSendRequest(App)
    /\ loc[App].target \in HBThreads
    /\ pc[loc[App].target] = "sr_lock"

\* a stop_heartbeat(), close() or connect() called by the user is running
UserStopRunning ==
    /\ pc[App] \in { "close", "join", "u_connect" }
    /\ loc[App].ctx \in { "user_stop", "user_close", "user_connect" }

\* C27: once the stop_heartbeat() or close() the user called has returned, a
\* heartbeat loop that was running when it was called has ended or finds the
\* stop event set at its next loop test, so it makes no further send_request.
C27_StopEndsLoop ==
    \A h \in HBThreads :
        (h \in stopRequested /\ ~ UserStopRunning
         /\ pc[h] \in { "hb_loop", "hb_back" }) => heartbeat_stop_event

\* C28: at most one heartbeat loop is alive.
C28_OneHeartbeatLoop ==
    Cardinality({ h \in HBThreads : IsAlive(h) }) <= 1

\* C29: the failure handler of the application's send_request, which
\* precedes the automatic reconnect, leaves the heartbeat alone: it does not
\* set the stop event and does not change the registered heartbeat thread.
C29_ReconnectKeepsHeartbeat ==
    [][ (pc[App] \in { "close", "join" } /\ loc[App].ctx = "sr_handler"
         /\ heartbeat_thread # NoThread /\ pc'[App] # pc[App])
            => /\ heartbeat_thread' = heartbeat_thread
               /\ heartbeat_stop_event' = heartbeat_stop_event ]_vars

\* ================================================================ IgusMotor
\* The public commands of IgusMotor (src/igus_motor.py), the queue and the
\* worker thread.  The history motor.log records every call made into the
\* controller (a command, or the reads of _update_state) with the thread
\* that made it.

MotorCommands == { "home", "move_to_position", "fault_reset" }

\* the commands and the state refresh call the controller, on thread th
CoreCall(th, what) == [ motor EXCEPT !.log = Append(@, << th, what >>) ]

\* _start_connection has run _update_state: _homed is what the device said
InitIgusMotor ==
    /\ StackInit
    /\ sdoImpl = "protocol"
    /\ input = << >>
    /\ output = << >>
    /\ dsm = InitDsm
    /\ writes = << >>
    /\ \E h \in BOOLEAN : motor = [ InitMotor EXCEPT !.homed = h ]
    /\ motion = InitMotion

\* the public call as the history keeps it
MadeCall(cmd, blocking, c, raised) ==
    [ id |-> motor.calls + 1, cmd |-> cmd, blocking |-> blocking, by |-> c,
      homed |-> motor.homed, raised |-> raised ]

\* move_to_position without the test of _homed
MotorCallNoHomedCheck(cmd, blocking, c) ==
    /\ motor.caller[c] = "idle"
    /\ motor.calls < MaxMotorCalls
    /\ LET id == motor.calls + 1
       IN motor' =
            [ motor EXCEPT
                !.calls = id,
                !.made = Append(@, MadeCall(cmd, blocking, c, FALSE)),
                !.queue = Append(@, [ id |-> id, cmd |-> cmd,
                                      blocking |-> blocking, by |-> c ]),
                !.enq = Append(@, id),
                !.results = Append(@, << >>),
                !.ccmd[c] = id,
                !.caller[c] = IF blocking THEN "wait" ELSE "refresh" ]
    /\ UNCHANGED << stackVars, input, output, dsm, writes, motion >>

\* home() / move_to_position() / fault_reset() called on thread c, up to
\* the end of _cmd_queue.put(): move_to_position raises when not homed;
\* a blocking call makes the result queue of its command (motor.results has
\* one place per call, used or not, so that place i belongs to call i)
MotorCall(cmd, blocking, c) ==
    /\ motor.caller[c] = "idle"
    /\ motor.calls < MaxMotorCalls
    /\ LET id == motor.calls + 1
       IN motor' =
            IF cmd = "move_to_position" /\ ~ motor.homed
            THEN [ motor EXCEPT
                     !.calls = id,
                     !.results = Append(@, << >>),
                     !.made = Append(@, MadeCall(cmd, blocking, c, TRUE)) ]
            ELSE [ motor EXCEPT
                     !.calls = id,
                     !.made = Append(@, MadeCall(cmd, blocking, c, FALSE)),
                     !.queue = Append(@, [ id |-> id, cmd |-> cmd,
                                           blocking |-> blocking, by |-> c ]),
                     !.enq = Append(@, id),
                     !.results = Append(@, << >>),
                     !.ccmd[c] = id,
                     !.caller[c] = IF blocking THEN "wait" ELSE "refresh" ]
    /\ UNCHANGED << stackVars, input, output, dsm, writes, motion >>

\* _worker: _cmd_queue.get() returns a command
WorkerGet ==
    /\ motor.worker = "get"
    /\ motor.queue # << >>
    /\ motor' = [ motor EXCEPT !.worker = "func", !.wcmd = Head(motor.queue),
                               !.queue = Tail(@) ]
    /\ UNCHANGED << stackVars, input, output, dsm, writes, motion >>

\* _worker: the loop test finds _stop_event set and the thread ends
WorkerStop ==
    /\ motor.worker = "get"
    /\ motor.stop
    /\ motor' = [ motor EXCEPT !.worker = "stopped" ]
    /\ UNCHANGED << stackVars, input, output, dsm, writes, motion >>

\* the worker has finished its command: the history, and (True, result) or
\* (False, e) in the result queue of a blocking command
WorkerDone(m, ok) ==
    [ m EXCEPT !.worker = "get", !.wcmd = << >>,
               !.executed = Append(@, [ id |-> motor.wcmd.id, ok |-> ok ]),
               !.results[motor.wcmd.id] =
                   IF motor.wcmd.blocking THEN Append(@, ok) ELSE @ ]

\* _worker: cmd.func(...) runs; when it raises, _connected is cleared, the
\* exception goes to the result queue and no refresh is made
WorkerFunc ==
    /\ motor.worker = "func"
    /\ LET ran == CoreCall("worker", motor.wcmd.cmd)
       IN \/ motor' = [ ran EXCEPT !.worker = "refresh" ]
          \/ motor' = [ WorkerDone(ran, FALSE) EXCEPT !.connected = FALSE ]
    /\ UNCHANGED << stackVars, input, output, dsm, writes, motion >>

\* _worker: _update_state(force=True) under _status_lock, then the result
WorkerRefresh ==
    /\ motor.worker = "refresh"
    /\ \E h \in BOOLEAN :
          motor' = [ WorkerDone(CoreCall("worker", "_update_state"), TRUE)
                       EXCEPT !.homed = h ]
    /\ UNCHANGED << stackVars, input, output, dsm, writes, motion >>

\* _enqueue of a blocking call: result_queue.get() returns, the result is
\* returned or the exception raised
CallerResult(c) ==
    /\ motor.caller[c] = "wait"
    /\ motor.results[motor.ccmd[c]] # << >>
    /\ LET ok == Head(motor.results[motor.ccmd[c]])
       IN motor' = [ motor EXCEPT
                       !.results[motor.ccmd[c]] = Tail(@),
                       !.received[c] = Append(@, [ id |-> motor.ccmd[c],
                                                   ok |-> ok ]),
                       !.caller[c] = IF ok THEN "refresh" ELSE "idle" ]
    /\ UNCHANGED << stackVars, input, output, dsm, writes, motion >>

\* the rest of home() / move_to_position() / fault_reset():
\* _update_state(force=True) under _status_lock, on the calling thread
CallerRefresh(c) ==
    /\ motor.caller[c] = "refresh"
    /\ \E h \in BOOLEAN :
          motor' = [ CoreCall("caller", "_update_state") EXCEPT
                       !.homed = h, !.caller[c] = "idle" ]
    /\ UNCHANGED << stackVars, input, output, dsm, writes, motion >>

\* shutdown(), called on any thread: _stop_event is set, the worker is
\* joined for at most 2 s, the transport closed and _connected cleared
MotorShutdown ==
    /\ ~ motor.stop
    /\ motor' = [ motor EXCEPT !.stop = TRUE, !.connected = FALSE ]
    /\ UNCHANGED << stackVars, input, output, dsm, writes, motion >>

NextMotor ==
    \/ \E cmd \in MotorCommands, blocking \in BOOLEAN, c \in MotorCallers :
          MotorCall(cmd, blocking, c)
    \/ WorkerGet
    \/ WorkerStop
    \/ WorkerFunc
    \/ WorkerRefresh
    \/ \E c \in MotorCallers : CallerResult(c)
    \/ \E c \in MotorCallers : CallerRefresh(c)
    \/ MotorShutdown

SpecMotor == InitIgusMotor /\ [][NextMotor]_vars

\* C25: every call into the controller made on behalf of home(),
\* move_to_position() and fault_reset(), the status refresh after the command
\* included, is made by the worker thread and never by the calling thread.
C25_WorkerMakesEveryCall ==
    \A i \in 1..Len(motor.log) : motor.log[i][1] = "worker"

\* ================================== errors of the state machine operations
\* the position of the operation cur among the steps of initialize_drive
StepNumber(cur) ==
    CASE cur = "fault_reset" -> 0
      [] cur = "shutdown" -> 1
      [] cur = "switch_on" -> 2
      [] cur = "enable_operation" -> 3

\* C31: initialize_drive goes on only after a FaultState of fault_reset (a
\* poll of its wait had the Fault bit set).  An
\* OperationTimeout or an SDO error of fault_reset ends initialize_drive with
\* that error and none of 0x0006, 0x0007, 0x000F written; an error of a
\* later step ends it with the controlwords of the steps after it unwritten;
\* the other operations end with the first error and catch none.
C31_OnlyFaultStateSwallowed ==
    /\ dsm.swallowed => dsm.op = "initialize_drive"
    /\ (dsm.swallowed /\ dsm.cur = "shutdown" /\ dsm.pc = "write") =>
           (Polled /\ StatuswordFault(dsm.sw))
    /\ (dsm.op = "initialize_drive" /\ dsm.pc = "done"
        /\ dsm.outcome # "ok") =>
           /\ Len(InitializeWords) <= StepNumber(dsm.cur)
           /\ dsm.cur = "fault_reset" =>
                  /\ dsm.outcome \in { "OperationTimeout", "SdoError" }
                  /\ ~ dsm.swallowed
                  /\ \A i \in 1..Len(writes) :
                        writes[i] \notin { << "controlword", 6 >>,
                                           << "controlword", 7 >>,
                                           << "controlword", 15 >> }
    /\ (dsm.op \notin { "initialize_drive", "none" } /\ dsm.pc = "done"
        /\ dsm.outcome # "ok") =>
           /\ dsm.waits <= 1
           /\ Len(SelectSeq(writes, LAMBDA w : w[1] = "controlword")) <= 1

\* initialize_drive has ended with the OperationTimeout of fault_reset, which
\* had written the fault reset controlword 0x0080 and then polled in vain.
C31_Witness ==
    /\ dsm.op = "initialize_drive"
    /\ dsm.cur = "fault_reset"
    /\ Ended("OperationTimeout")
    /\ dsm.polls >= 1
    /\ << "controlword", 128 >> \in { writes[i] : i \in 1..Len(writes) }

\* the exceptions of the lookup and of the access checks
Rejections == { "ObjectNotFound", "AccessViolation" }

\* C32: a read or write that ends with ObjectNotFound or AccessViolation is
\* rejected in the step of the call itself, before any attempt: that step
\* makes no exchange, leaves the socket, the lock, the transaction id, the
\* heartbeat registration, the frames in flight and the last framed id as
\* they were, and so does the step that hands the exception to the caller.
C32_RejectedTouchesNothing ==
    [][ /\ (sdo'.outcome \in Rejections /\ sdo.outcome \notin Rejections) =>
              /\ pc[App] = "idle" /\ pc'[App] = "sdo_done"
              /\ sdo'.exchanges = 0 /\ sdo'.attempt = 0
              /\ UNCHANGED << transportVars, netVars, lastFramed, loc >>
        /\ (sdo.outcome \in Rejections /\ pc'[App] # pc[App]) =>
              /\ pc'[App] = "idle"
              /\ UNCHANGED << transportVars, netVars, lastFramed, loc >> ]_vars

C32_Witness ==
    /\ pc[App] = "sdo_done"
    /\ sdo.outcome = "AccessViolation"
    /\ sdo.op = "write"
    /\ sock = "open"
    /\ transaction_id > 0
    /\ heartbeat_thread # NoThread

\* ---------------------------------------------------- the transaction-id counter
\* framed attempts followed in one behaviour
MaxFrames == 2

\* A connected transport whose counter holds any value it can have reached:
\* 0 after construction with no attempt framed yet, n after n framed attempts.
InitTid ==
    /\ \E n \in 0..(TidModulus - 1) :
          /\ transaction_id = n
          /\ lastFramed = IF n = 0 THEN None ELSE n
    /\ sock = "open"
    /\ lock = NoThread
    /\ heartbeat_thread = NoThread
    /\ heartbeat_stop_event = FALSE
    /\ pc = [ t \in Threads |-> IF t = App THEN "idle" ELSE "unborn" ]
    /\ loc = [ t \in Threads |-> InitLoc ]
    /\ srvq = << >>
    /\ rxbuf = << >>
    /\ beats = 0
    /\ calls = 0
    /\ sdoImpl = "protocol"
    /\ sdo = InitSdo
    /\ stopRequested = {}
    /\ input = << >>
    /\ output = << >>
    /\ dsm = InitDsm
    /\ writes = << >>
    /\ motor = InitMotor
    /\ motion = InitMotion

\* send_request allocates the id of one attempt; output keeps, for each
\* attempt, the counter before it, the id framed and whether it was the
\* first attempt since construction
TidFrame ==
    /\ Len(output) < MaxFrames
    /\ LET tid == next_transaction_id(transaction_id)
       IN  /\ transaction_id' = tid
           /\ lastFramed' = tid
           /\ output' = Append(output, [ previous |-> transaction_id,
                                         tid |-> tid,
                                         first |-> lastFramed = None ])
    /\ UNCHANGED << sock, lock, heartbeat_thread, heartbeat_stop_event, pc,
                    loc, srvq, rxbuf, beats, calls, sdoImpl, sdo,
                    stopRequested, input, dsm, writes, motor, motion >>

\* connect(): the old socket is closed, a new one opened, the counter reset
TidConnect ==
    /\ transaction_id' = 0
    /\ UNCHANGED << sock, lock, heartbeat_thread, heartbeat_stop_event, pc,
                    loc, srvq, rxbuf, beats, calls, sdoImpl, sdo, lastFramed,
                    stopRequested, layerVars >>

NextTid == TidFrame \/ TidConnect

SpecTid == InitTid /\ [][NextTid]_vars

\* C33: the counter is always in 0..65535; every framed attempt uses the
\* counter's previous value plus one modulo 65536, so 65535 is followed by 0;
\* the first attempt framed after construction has id 1.
C33_CounterWraps ==
    /\ transaction_id \in 0..65535
    /\ \A i \in 1..Len(output) :
          /\ output[i].tid \in 0..65535
          /\ output[i].tid = (output[i].previous + 1) % 65536
          /\ output[i].previous = 65535 => output[i].tid = 0
          /\ output[i].first => output[i].tid = 1

C33_Witness ==
    /\ Len(output) = 2
    /\ output[1].previous = 65535
    /\ output[1].tid = 0
    /\ output[2].tid = 1

\* ------------------------------------------------- the whole object dictionary
OdEntry(index, subindex, length, access, dtype, scale) ==
    [ index |-> index, subindex |-> subindex, length |-> length,
      access |-> access, dtype |-> dtype, scale |-> scale ]

\* every entry of OD_MAP, in the order of the source
OdEntries ==
    [
      homing_status |-> OdEntry(8212, 0, 2, "ro", "uint16", 1),
      controlword |-> OdEntry(24640, 0, 2, "rw", "uint16", 1),
      statusword |-> OdEntry(24641, 0, 2, "ro", "uint16", 1),
      mode_of_operation |-> OdEntry(24672, 0, 1, "rw", "int8", 1),
      mode_of_operation_display |-> OdEntry(24673, 0, 1, "ro", "int8", 1),
      target_position |-> OdEntry(24698, 0, 4, "rw", "int32", 1),
      target_velocity |-> OdEntry(24831, 0, 4, "rw", "int32", 1),
      actual_position |-> OdEntry(24676, 0, 4, "ro", "int32", 1),
      actual_velocity |-> OdEntry(24684, 0, 4, "ro", "int32", 100),
      profile_velocity |-> OdEntry(24705, 0, 4, "rw", "uint32", 1),
      profile_acceleration |-> OdEntry(24707, 0, 4, "rw", "uint32", 1),
      profile_deceleration |-> OdEntry(24708, 0, 4, "rw", "uint32", 1),
      feed_constant_feed |-> OdEntry(24722, 1, 4, "rw", "uint32", 1),
      feed_constant_shaft_revolutions |-> OdEntry(24722, 2, 4, "rw", "uint32", 1),
      homing_method |-> OdEntry(24728, 0, 1, "ro", "int8", 1),
      homing_speed_search_switch |-> OdEntry(24729, 1, 4, "rw", "uint32", 100),
      homing_speed_search_zero |-> OdEntry(24729, 2, 4, "rw", "uint32", 100),
      homing_acceleration |-> OdEntry(24730, 0, 4, "rw", "uint32", 100),
      digital_inputs |-> OdEntry(24829, 0, 4, "ro", "uint32", 1),
      digital_outputs_physical |-> OdEntry(24830, 1, 4, "rw", "uint32", 1),
      digital_outputs_bitmask |-> OdEntry(24830, 2, 4, "rw", "uint32", 1),
      supported_modes |-> OdEntry(25858, 0, 4, "ro", "uint32", 1),
      position_demand |-> OdEntry(24675, 0, 4, "ro", "int32", 100),
      error_register |-> OdEntry(4097, 0, 1, "ro", "uint8", 1),
      predefined_error_field |-> OdEntry(4099, 0, 8, "ro", "uint32", 1),
      store_parameters |-> OdEntry(4112, 1, 4, "rw", "uint32", 1) ]

\* the data bytes of a response: the same byte `length` times (up to 127, to
\* keep a 4-byte value within the integers of the checker)
OdDataBytes == { 0, 1, 127 }

\* the values written
OdValues == { 0, 1, 100 }

\* a read of a readable key whose response carries `length` data bytes, or a
\* write of a writable key
InitOd ==
    /\ StackInit
    /\ sdoImpl = "protocol"
    /\ \E k \in DOMAIN OdEntries :
          \/ /\ SdoAccessCheck("read", TRUE, OdEntries[k].access) = "none"
             /\ \E b \in OdDataBytes :
                   input = [ op |-> "read", key |-> k, v |-> b ]
          \/ /\ SdoAccessCheck("write", TRUE, OdEntries[k].access) = "none"
             /\ \E v \in OdValues :
                   input = [ op |-> "write", key |-> k, v |-> v ]
    /\ output = << >>
    /\ dsm = InitDsm
    /\ writes = << >>
    /\ motor = InitMotor
    /\ motion = InitMotion

\* DryveSDO.read decodes the last `length` bytes of the payload by the dtype
OdRead ==
    /\ input # << >> /\ input.op = "read"
    /\ output = << >>
    /\ LET meta == OdEntries[input.key]
           data_bytes == [ i \in 1..meta.length |-> input.v ]
       IN output' = << [ err |-> UnpackRaises(data_bytes, meta.dtype),
                         value |-> unpack_value(data_bytes, meta.dtype,
                                                meta.scale) ] >>
    /\ UNCHANGED << stackVars, input, dsm, writes, motor, motion >>

\* build_write_request packs the value and compares the packed length with
\* the declared one
OdWrite ==
    /\ input # << >> /\ input.op = "write"
    /\ output = << >>
    /\ LET obj == OdEntries[input.key]
           packed_data == pack_value(input.v, obj.dtype, obj.scale)
       IN output' = << [ err |-> IF packed_data = StructError
                                 THEN "struct.error"
                                 ELSE IF packed_data = CodecError
                                 THEN "CodecError"
                                 ELSE IF Len(packed_data) # obj.length
                                 THEN "ValueError"
                                 ELSE "none",
                         value |-> packed_data ] >>
    /\ UNCHANGED << stackVars, input, dsm, writes, motor, motion >>

NextOd == OdRead \/ OdWrite

SpecOd == InitOd /\ [][NextOd]_vars

\* C34: every entry's declared length is the byte width of its data type, so
\* the read of a readable key decodes a response that carries the declared
\* number of data bytes, and the write of a writable key passes the builder's
\* comparison of the packed length with the declared length.
C34_EntriesSelfConsistent ==
    output # << >> =>
        /\ OdEntries[input.key].length = TypeWidth[OdEntries[input.key].dtype]
        /\ output[1].err = "none"

\* ------------------------------------------------- the builder on any entry
\* the keys whose entries the builder is given, each with every access type
BuilderKeys ==
    { "statusword", "controlword", "mode_of_operation",
      "homing_speed_search_switch", "predefined_error_field" }

\* the values handed to build_write_request
BuilderValues == { 0 - 1, 0, 6, 300 }

\* build_write_request without the comparison of the packed length
BuildRequestNoLengthCheck(op, obj, value) ==
    LET pdu == IF op = "read" THEN ReadRequestPdu(obj)
               ELSE WriteRequestPdu(obj, value)
        packed_data == Drop(pdu, 12)
    IN IF BuilderAccessCheck(op, obj.access) # "none"
       THEN Raises(BuilderAccessCheck(op, obj.access))
       ELSE IF op = "read" THEN [ err |-> "none", pdu |-> pdu ]
       ELSE IF packed_data = StructError THEN Raises("struct.error")
       ELSE IF packed_data = CodecError THEN Raises("CodecError")
       ELSE [ err |-> "none", pdu |-> pdu ]

\* build_read_request / build_write_request on the entry obj: the error
\* raised, or the PDU returned
BuildRequest(op, obj, value) ==
    LET pdu == IF op = "read" THEN ReadRequestPdu(obj)
               ELSE WriteRequestPdu(obj, value)
        packed_data == Drop(pdu, 12)
    IN IF BuilderAccessCheck(op, obj.access) # "none"
       THEN Raises(BuilderAccessCheck(op, obj.access))
       ELSE IF op = "read" THEN [ err |-> "none", pdu |-> pdu ]
       ELSE IF packed_data = StructError THEN Raises("struct.error")
       ELSE IF packed_data = CodecError THEN Raises("CodecError")
       ELSE IF Len(packed_data) # obj.length THEN Raises("ValueError")
       ELSE [ err |-> "none", pdu |-> pdu ]

\* the entry the builder looks up: the one of the table, declared with
\* input.access
BuilderEntry == [ OdEntries[input.key] EXCEPT !.access = input.access ]

InitBuilder ==
    /\ StackInit
    /\ sdoImpl = "protocol"
    /\ \E o \in { "read", "write" }, k \in BuilderKeys, a \in AccessType,
          v \in BuilderValues :
          input = [ op |-> o, key |-> k, access |-> a, value |-> v ]
    /\ output = << >>
    /\ dsm = InitDsm
    /\ writes = << >>
    /\ motor = InitMotor
    /\ motion = InitMotion

\* the builder is called
Build ==
    /\ input # << >>
    /\ output = << >>
    /\ output' = << BuildRequest(input.op, BuilderEntry, input.value) >>
    /\ UNCHANGED << stackVars, input, dsm, writes, motor, motion >>

NextBuilder == Build

SpecBuilder == InitBuilder /\ [][NextBuilder]_vars

\* the packed value of the write under study, when pack_value returns one
BuilderPacked ==
    pack_value(input.value, BuilderEntry.dtype, BuilderEntry.scale)

\* C35: the builder raises AccessViolation and returns no bytes for a read of
\* a write-only entry and for a write of a read-only entry; a write whose
\* packed value has another length than the entry declares fails with the
\* length-mismatch error (ValueError); a write PDU that is returned has
\* exactly as many payload bytes as its length byte says.
C35_BuilderChecks ==
    output # << >> =>
        LET r == output[1]
        IN /\ (input.op = "read" /\ input.access = "wo") =>
                  (r.err = "AccessViolation" /\ r.pdu = << >>)
           /\ (input.op = "write" /\ input.access = "ro") =>
                  (r.err = "AccessViolation" /\ r.pdu = << >>)
           /\ ( /\ input.op = "write" /\ input.access # "ro"
                /\ BuilderPacked \notin { StructError, CodecError }
                /\ Len(BuilderPacked) # BuilderEntry.length ) =>
                  (r.err = "ValueError" /\ r.pdu = << >>)
           /\ (input.op = "write" /\ r.err = "none") =>
                  /\ Len(r.pdu) - 12 = r.pdu[12]
                  /\ Drop(r.pdu, 12) = BuilderPacked

C35_Witness ==
    /\ output # << >>
    /\ input.op = "write"
    /\ input.key = "predefined_error_field"
    /\ input.access = "rw"
    /\ Len(BuilderPacked) = 4
    /\ output[1].err = "ValueError"

\* ------------------------------------------------ IgusMotor: queue and flags
\* the worker runs the commands in the order they were put, and what a
\* caller receives is the outcome of its own command, once
MotorOrderAndOwnership ==
    /\ Len(motor.executed) <= Len(motor.enq)
    /\ \A i \in 1..Len(motor.executed) : motor.executed[i].id = motor.enq[i]
    /\ motor.worker \in { "func", "refresh" } =>
           motor.wcmd.id = motor.enq[Len(motor.executed) + 1]
    /\ \A i \in 1..Len(motor.results) : Len(motor.results[i]) <= 1
    /\ \A c \in MotorCallers :
          /\ \A i \in 1..Len(motor.received[c]) :
                /\ motor.made[motor.received[c][i].id].by = c
                /\ motor.made[motor.received[c][i].id].blocking
                /\ \E j \in 1..Len(motor.executed) :
                      motor.executed[j] = motor.received[c][i]
          /\ \A i, j \in 1..Len(motor.received[c]) :
                motor.received[c][i].id = motor.received[c][j].id => i = j

\* a blocking caller that waits for a result no thread will ever put
MotorStranded(c) ==
    /\ motor.caller[c] = "wait"
    /\ motor.results[motor.ccmd[c]] = << >>
    /\ motor.worker = "stopped"

\* C36: the worker runs the queued commands one at a time in the order they
\* were put, and every blocking caller receives exactly one outcome, that of
\* its own command, whatever the interleaving of the calling threads.
C36_EveryCallerServed ==
    /\ MotorOrderAndOwnership
    /\ \A c \in MotorCallers : ~ MotorStranded(c)

\* C37: while the motor is not shut down, _connected is the outcome of the
\* last command the worker has finished: false after a failure, true after a
\* success.
C37_ConnectedFollowsLastCommand ==
    (~ motor.stop /\ motor.executed # << >>) =>
        (motor.connected <=> motor.executed[Len(motor.executed)].ok)

\* the public call number i was move_to_position with _homed false
RejectedMove(m, i) ==
    m.made[i].cmd = "move_to_position" /\ ~ m.made[i].homed

\* C38: move_to_position called while _homed is false raises at once: the
\* step of the call puts no command, makes no call into the controller and
\* leaves the worker, the transport and the SDO client as they were, and the
\* worker never runs a command for that call.
C38_NotHomedMoveRejected ==
    /\ [](\A i \in 1..Len(motor.made) :
             RejectedMove(motor, i) =>
                /\ motor.made[i].raised
                /\ \A j \in 1..Len(motor.enq) : motor.enq[j] # i
                /\ \A j \in 1..Len(motor.executed) : motor.executed[j].id # i
                /\ \A c \in MotorCallers : motor.ccmd[c] # i)
    /\ [][ (/\ Len(motor'.made) = Len(motor.made) + 1
            /\ RejectedMove(motor', Len(motor'.made))) =>
               /\ motor'.queue = motor.queue
               /\ motor'.log = motor.log
               /\ motor'.worker = motor.worker
               /\ motor'.wcmd = motor.wcmd
               /\ motor'.caller = motor.caller
               /\ UNCHANGED stackVars ]_vars

C38_Witness ==
    /\ \E i \in 1..Len(motor.made) :
          RejectedMove(motor, i) /\ motor.made[i].raised /\ i > 1
    /\ Len(motor.executed) >= 1
    /\ motor.worker = "get"
    /\ motor.queue = << >>

\* ===================================================== wait_motion_complete
\* the loop gives up when timer exceeds this (src/controller.py:170)
MotionLimit == 150

\* the positions kept for the test of a stuck axis (src/controller.py:178)
StuckWindow == 5

\* the positions the device reports (ACTUAL_POSITION is an INT32 with scale
\* 1, so two positions are closer than 0.01 exactly when they are equal)
PositionValues == { 0, 1 }

\* the bits of a polled statusword that wait_motion_complete looks at
MotionStatuswords == [ target_reached : BOOLEAN, fault : BOOLEAN ]

\* the call has left the try block with outcome o: the finally clause is next
MotionExit(m, o) == [ m EXCEPT !.pc = "finally", !.outcome = o ]

\* positions.append(p) without the pop of the oldest position
TrimWindowKeepAll(positions) == positions

\* positions after 'if len(positions) > 5: positions.pop(0)'
TrimWindow(positions) ==
    IF Len(positions) > StuckWindow THEN Tail(positions) ELSE positions

\* the test made after a pop: every position kept is the first one kept
AllUnchanged(positions) ==
    \A i \in 1..Len(positions) : positions[i] = positions[1]

InitWait ==
    /\ StackInit
    /\ sdoImpl = "protocol"
    /\ LayersIdle

\* wait_motion_complete up to the loop: _is_motion is set, the statusword is
\* read for the first time (the read returns a word or raises)
WaitBegin ==
    /\ motion.pc = "idle"
    /\ \/ \E w \in MotionStatuswords :
             motion' = [ motion EXCEPT !.pc = "loop", !.is_motion = TRUE,
                                       !.sw = w ]
       \/ motion' = [ MotionExit(motion, "SdoError") EXCEPT
                        !.is_motion = TRUE ]
    /\ UNCHANGED << stackVars, input, output, dsm, writes, motor >>

\* the loop test and one iteration: sleep, timer, the limit, the fault test
\* on the word polled before, the next statusword and position, the window
\* of positions and the test of a stuck axis
WaitIteration ==
    /\ motion.pc = "loop"
    /\ LET timer == motion.timer + 1
       IN  IF motion.sw.target_reached
           THEN motion' = MotionExit(motion, "returned")
           ELSE IF timer > MotionLimit
           THEN motion' = MotionExit([ motion EXCEPT !.timer = timer ],
                                     "TimeoutError")
           ELSE IF motion.sw.fault
           THEN \E o \in { "RuntimeError", "SdoError" } :
                   motion' = MotionExit([ motion EXCEPT !.timer = timer ], o)
           ELSE \/ motion' = MotionExit([ motion EXCEPT !.timer = timer ],
                                        "SdoError")
                \/ \E w \in MotionStatuswords, p \in PositionValues :
                      LET appended == Append(motion.positions, p)
                          positions == TrimWindow(appended)
                          m == [ motion EXCEPT
                                   !.timer = timer, !.sw = w,
                                   !.positions = positions,
                                   !.last6 =
                                      IF Len(@) = StuckWindow + 1
                                      THEN Append(Tail(@), p)
                                      ELSE Append(@, p) ]
                      IN  IF Len(appended) > StuckWindow
                             /\ AllUnchanged(positions)
                          THEN motion' = MotionExit(m, "stuck")
                          ELSE motion' = m
    /\ UNCHANGED << stackVars, input, output, dsm, writes, motor >>

\* the finally clause: _is_motion is cleared, then update_status() returns
\* or raises; what it raises replaces the outcome of the try block
WaitFinally ==
    /\ motion.pc = "finally"
    /\ \/ motion' = [ motion EXCEPT !.pc = "done", !.is_motion = FALSE ]
       \/ motion' = [ motion EXCEPT !.pc = "done", !.is_motion = FALSE,
                                    !.outcome = "SdoError" ]
    /\ UNCHANGED << stackVars, input, output, dsm, writes, motor >>

NextWait == WaitBegin \/ WaitIteration \/ WaitFinally

\* the thread that runs the call keeps running
SpecWait == InitWait /\ [][NextWait]_vars /\ WF_vars(NextWait)

\* the last n positions read are all the same
LastUnchanged(n) ==
    /\ Len(motion.last6) >= n
    /\ \A i \in (Len(motion.last6) - n + 1)..Len(motion.last6) :
          motion.last6[i] = motion.last6[Len(motion.last6)]

\* what holds of every exit, the stuck axis apart
WaitExits ==
    /\ motion.timer <= MotionLimit + 1
    /\ motion.pc = "done" => ~ motion.is_motion
    /\ (motion.pc = "done" /\ motion.outcome = "returned") =>
           motion.sw.target_reached
    /\ motion.outcome = "RuntimeError" =>
           (motion.sw.fault /\ ~ motion.sw.target_reached)
    /\ motion.outcome = "TimeoutError" => motion.timer = MotionLimit + 1

\* C39 as the claim states it: wait_motion_complete ends, with _is_motion
\* false; it returns when the polled statusword has target-reached set, and
\* raises on a fault, when timer passes 150, or, for a stuck axis, when the
\* last six positions read are unchanged.
C39_StuckAfterSixUnchanged ==
    /\ <>(motion.pc = "done")
    /\ [](/\ WaitExits
          /\ motion.outcome = "stuck" =>
                 (LastUnchanged(6) /\ ~ motion.sw.target_reached))

\* C39, amended: as above, but the axis counts as stuck, on the sixth and
\* every later position read, exactly when the last five positions read are
\* unchanged, whatever the statusword polled just before that position says.
C39_StuckAfterFiveUnchanged ==
    /\ <>(motion.pc = "done")
    /\ [](/\ WaitExits
          /\ motion.outcome = "stuck" =>
                 (Len(motion.last6) = 6 /\ LastUnchanged(StuckWindow))
          /\ (motion.pc = "loop" /\ Len(motion.last6) = 6) =>
                 ~ LastUnchanged(StuckWindow))

C39_Witness ==
    /\ motion.pc = "done"
    /\ motion.outcome = "stuck"
    /\ ~ motion.is_motion
    /\ motion.last6[1] # motion.last6[2]
    /\ motion.timer > 6

====
